---- MODULE Spec2Model ----
(***************************************************************************)
(* The sync pipeline of backend/app/services/sync_service.py: run_sync,    *)
(* _process_provider and _process_message over the Firestore collections   *)
(* of one user (card_providers, statements, transactions) and the jobs     *)
(* collection, as written by backend/app/services/firestore_service.py.    *)
(*                                                                         *)
(* Every store or external call of the source is one step of a run, so     *)
(* that overlapping runs interleave at exactly the calls where the code    *)
(* can be preempted.  A Python string is a record [text, len]: text names  *)
(* the content, len is its length, and slicing s[:n] keeps text and cuts   *)
(* len.  A message id and a date are tuples of characters, so that         *)
(* msg_id[:8] and billing_period_to[:7] are computed as the code does.     *)
(***************************************************************************)
EXTENDS Integers, Sequences, FiniteSets, TLC

VARIABLES
    user,          \* users/{uid} document, or NoDoc
    cards,         \* users/{uid}/card_providers ordered by addedAt
    inbox,         \* the mailbox: the messages Gmail search can return
    pool,          \* how many sync requests are in flight at once, at most
    statements,    \* users/{uid}/statements: document id -> fields
    transactions,  \* users/{uid}/transactions: set of documents
    jobs,          \* jobs/{job_id}: document, or NoDoc
    pc,            \* position of run_sync(uid, job_id) for each job
    loc,           \* locals of run_sync/_process_provider/_process_message
    faults,        \* deviations from the plain path that may still happen
    outcomes,      \* history: how each message of each run ended
    calls,         \* history: calls made for the message a run is handling
    \* run_agent_stream(uid, user_message, history)
    history,       \* the persisted messages of the chat, oldest first
    contents,      \* the conversation sent to the model: a sequence of turns
    apc,           \* position of run_agent_stream
    iteration,     \* the loop variable of the agent loop
    parts,         \* candidate.content.parts of the last response
    part,          \* index of the part the inner loop is at
    has_function_call,
    collected_tool_calls,
    events,        \* the events yielded so far, in order
    model_calls,   \* history: number of generate_content calls made
    executed,      \* history: the calls the last response asked for that
                   \* have been executed and appended to contents, in order
    mark,          \* history: Len(contents) when the last response arrived
    exc,           \* the exception caught by run_agent_stream, or None
    \* _execute_get_spending_summary(uid, args)
    args,          \* the arguments of the call
    spend_data,    \* what the call returned
    \* _execute_search_transactions(uid, args)
    now,           \* datetime.now(timezone.utc): its year and month
    queried,       \* the months passed to get_transactions_for_months
    \* _execute_list_card_providers(uid, args)
    listed,        \* what the call returned, or None
    \* send_message(body, uid): POST /chat/send, for each request
    chat,          \* the persisted messages of the chat, ordered by createdAt
    spc,           \* position of each request
    sloc           \* locals of each request, and a log of its steps

syncvars == <<user, cards, inbox, pool, statements, transactions, jobs, pc, loc,
              faults, outcomes, calls>>
agentvars == <<history, contents, apc, iteration, parts, part, has_function_call,
               collected_tool_calls, events, model_calls, executed, mark, exc>>
toolvars == <<args, spend_data, now, queried, listed, chat, spc, sloc>>
sendvars == <<chat, spc, sloc>>
vars == <<syncvars, agentvars, toolvars>>

----------------------------------------------------------------------------
\* Bounds of the model.

\* Number of sync invocations (jobs created).
NumJobs == 2
\* Largest number of messages in the mailbox.
MaxMsgs == 3
\* Largest number of deviations over one behaviour: an exception raised by
\* a store or network call, a bad document (no PDF, wrong password, no
\* text), a failed or wrong extraction.
MaxFaults == 1

\* Largest number of messages in the mailbox when runs overlap.
MaxOverlapMsgs == 2

\* Deviations and messages of a behaviour with a store outage.
MaxOutageFaults == 2
MaxOutageMsgs == 2

\* Largest number of persisted messages that history reconstruction is
\* applied to.
MaxHistory == 3

\* Largest number of persisted messages a chat starts from when the agent
\* runs, and of iterations in which the model or a tool leaves the plain
\* path.
MaxAgentHistory == 1
NumYears == 4
MaxProviders == 2
\* Requests to POST /chat/send for one chat that may be in flight at once.
NumSends == 2
MaxAgentDeviations == 2

\* range(10) of the agent loop.
MaxIterations == 10

\* Program constants.
TempPrefixLen == 8
MonthLen == 7
MsgErrLen == 200
ListErrLen == 100
JobErrLen == 500
min_chars == 100

Jobs == 1..NumJobs
Sends == 1..NumSends

----------------------------------------------------------------------------
\* Values.

NoDoc == [exists |-> FALSE]
None == [null |-> TRUE]
Str(t, n) == [text |-> t, len |-> n]

Min(a, b) == IF a < b THEN a ELSE b

\* s[:n] on a tuple of characters.
Take(s, n) == SubSeq(s, 1, Min(n, Len(s)))

\* s[:n] on a string [text, len].
Slice(s, n) == [s EXCEPT !.len = Min(s.len, n)]

\* doc.get(f) == v for a document that may lack the field.
FieldIs(doc, f, v) == f \in DOMAIN doc /\ doc[f] = v

\* DocumentReference.set(data, merge=True): fields of data win.
MergeSet(old, data) == IF old = NoDoc THEN data ELSE data @@ old

----------------------------------------------------------------------------
\* Inputs: the mailbox, the user record and the card providers.

\* Gmail message ids; the first and the third agree on their first 8
\* characters.
IdA == <<"1", "8", "c", "4", "f", "0", "a", "2">>
IdB == <<"1", "9", "d", "0", "0", "b", "7", "e">>
IdC == <<"1", "a", "0", "3", "5", "5", "c", "1">>

\* billing_period_to values (YYYY-MM-DD); the first two lie in one month.
Jan31 == <<"2", "0", "2", "4", "-", "0", "1", "-", "3", "1">>
Jan15 == <<"2", "0", "2", "4", "-", "0", "1", "-", "1", "5">>
Feb29 == <<"2", "0", "2", "4", "-", "0", "2", "-", "2", "9">>
Mar31 == <<"2", "0", "2", "4", "-", "0", "3", "-", "3", "1">>
Dates == {Jan31, Jan15, Feb29, Mar31}

\* A message: its id, its sender, and what its PDF holds (the statement's
\* billing_period_to and the number of transaction rows).
Msg(id, sender, to, n) == [id |-> id, from |-> sender, period_to |-> to, ntx |-> n]

AllMsgs ==
    << Msg(IdA \o <<"0">>, "bankA", Jan31, 2),
       Msg(IdB \o <<"0">>, "bankB", Jan15, 1),
       Msg(IdA \o <<"1">>, "bankA", Feb29, 1),
       Msg(IdC \o <<"0">>, "bankA", Mar31, 0) >>

Range(s) == {s[i] : i \in 1..Len(s)}

\* The mailbox holds the first n of these messages.
Inboxes == {SubSeq(AllMsgs, 1, n) : n \in 0..Min(MaxMsgs, Len(AllMsgs))}

\* auth_service.encrypt / decrypt (Fernet): a ciphertext decrypts to its
\* plaintext under the key it was made with, and raises otherwise.
encrypt(plaintext) == [plain |-> plaintext, valid |-> TRUE]
Garbled(plaintext) == [plain |-> plaintext, valid |-> FALSE]
\* Variant: a decryption that accepts any ciphertext.
DecryptAlwaysOk(ciphertext) == TRUE
DecryptOk(ciphertext) == ciphertext.valid
decrypt(ciphertext) == ciphertext.plain

\* users/{uid}: absent, not connected, connected without a token, connected
\* with a token the current key cannot decrypt, connected with a good token.
Users ==
    { NoDoc,
      [gmailConnected |-> FALSE],
      [gmailConnected |-> TRUE],
      [gmailConnected |-> TRUE, gmailRefreshToken |-> Garbled("rt")],
      [gmailConnected |-> TRUE, gmailRefreshToken |-> encrypt("rt")] }

\* A card provider document.  A missing emailSenderPattern makes the query
\* match every sender (sync_service.py:110-119).
Provider(id, pattern, pw) ==
    [id |-> id, emailSenderPattern |-> pattern, encryptedPassword |-> pw]
Passwords == {encrypt("pw"), encrypt(""), Garbled("pw")}
CardConfigs ==
    {<<>>}
    \cup {<<Provider("p1", "", pw)>> : pw \in Passwords}
    \cup {<<Provider("p1", "", encrypt("pw")), Provider("p2", "bankB", encrypt(""))>>,
           <<Provider("p1", "bankA", Garbled("pw")), Provider("p2", "bankB", encrypt("pw"))>>}

\* Lengths of the messages of the exceptions that calls raise.
ErrLens == {600}
Errors == {Str("error", n) : n \in ErrLens}

\* The text pdfplumber extracts from a PDF: body characters between
\* pad characters of leading and trailing whitespace.
Text(body, pad) == [body |-> body, pad |-> pad]
NoText == Text(0, 0)
Texts == {NoText, Text(99, 3), Text(100, 0)}

----------------------------------------------------------------------------
\* Pure functions of the source.

\* temp_id = f"{provider_id}_processing_{msg_id[:8]}"
temp_id(provider_id, msg_id) == <<provider_id, "processing", Take(msg_id, TempPrefixLen)>>

\* billing_month = extracted.billing_period_to[:7]
billing_month(period_to) == Take(period_to, MonthLen)

\* final_id = f"{provider_id}_{billing_month}".  A month has at most 7
\* characters and "processing_..." has more, so a final id never equals a
\* temporary id; the tag keeps the two apart here.
final_id(provider_id, month) == <<provider_id, "final", month>>

\* len(text) and len(text.strip())
RawLen(text) == text.body + text.pad
StrippedLen(text) == text.body

\* Variant of the gate that counts the surrounding whitespace too.
is_readable_unstripped(text) == RawLen(text) >= min_chars

\* pdf_service.is_readable
is_readable(text) == StrippedLen(text) >= min_chars

\* firestore_service.get_statement
get_statement(stmts, id) == IF id \in DOMAIN stmts THEN stmts[id] ELSE NoDoc

\* Variants of the query: one that filters on the wrong status, one that
\* never matches.
ExistsInProcessing(stmts, msg_id) ==
    \E id \in DOMAIN stmts :
        /\ FieldIs(stmts[id], "gmailMessageId", msg_id)
        /\ FieldIs(stmts[id], "status", "processing")
NeverExists(stmts, msg_id) == FALSE

\* firestore_service.statement_exists_by_gmail_id
statement_exists_by_gmail_id(stmts, msg_id) ==
    \E id \in DOMAIN stmts :
        /\ FieldIs(stmts[id], "gmailMessageId", msg_id)
        /\ FieldIs(stmts[id], "status", "processed")

\* firestore_service.upsert_statement
upsert_statement(stmts, id, data) ==
    [x \in DOMAIN stmts \cup {id} |->
        IF x = id THEN MergeSet(get_statement(stmts, id), data) ELSE stmts[x]]

\* A delete that removes nothing.
delete_nothing(stmts, id) == stmts

\* firestore_service.delete_statement
delete_statement(stmts, id) == [x \in DOMAIN stmts \ {id} |-> stmts[x]]

\* gmail_service.search_messages for the query built from a provider.
Matches(provider, m) ==
    \/ provider.emailSenderPattern = ""
    \/ m.from = provider.emailSenderPattern
search_messages(provider) ==
    LET found == SelectSeq(inbox, LAMBDA m : Matches(provider, m))
    IN  [i \in 1..Len(found) |-> found[i].id]

\* The message of the mailbox with a given id.
Content(msg_id) == CHOOSE m \in Range(inbox) : m.id = msg_id

----------------------------------------------------------------------------
\* The agent of backend/app/services/chat_agent_service.py: values.

\* Tools: two of _TOOL_EXECUTORS, and a name the registry does not know.
KnownTools == {"get_statements", "list_card_providers", "get_spending_summary"}
UnknownTool == "export_csv"

\* A text is the sequence of its pieces: "" is <<>>, and joining two texts
\* is concatenation.
Question == <<"question">>
Answer == <<"answer">>
MaxIterationsText == <<"I've reached the maximum number of tool calls.">>

\* The parts of a model response.
TextPart(t) == [kind |-> "text", text |-> t]
CallPart(n) == [kind |-> "function_call", name |-> n, args |-> "args"]

\* What an executor returns (a JSON string), what the loop builds when the
\* executor raises or the tool is unknown, and the compact summary
\* _summarize_result makes of either.
ToolResult(n) == [tool |-> n, json |-> "result"]
ToolError(n) == [tool |-> n, json |-> "error"]
ResultItself(n, result) == result
Summary(n, result) == [tool |-> n, summary_of |-> result.json]

\* chat_agent_service.py:265-271: the summary of a get_spending_summary
\* result reads data[m].get("total") for each key m of the result.  On an
\* error result {"error": "..."} the only key holds a string, and the
\* read raises AttributeError.
SummaryRaises(n, result) == n = "get_spending_summary" /\ result = ToolError(n)
AttributeError == Str("'str' object has no attribute 'get'", 36)

\* The turns of a conversation (types.Content with one part).
TextTurn(role, t) == [role |-> role, kind |-> "text", text |-> t]
FunctionCallTurn(n, a) == [role |-> "model", kind |-> "function_call", name |-> n, args |-> a]
FunctionResponseTurn(n, r) ==
    [role |-> "user", kind |-> "function_response", name |-> n, result |-> r]

\* Persisted messages, as routers/chat.py writes them: a user message, and
\* assistant messages with their tool-call records (name, arguments, and
\* the summary as result).  toolCalls is None when there are no calls; the
\* code reads it as `msg.get("toolCalls") or []`, the empty list here.
ToolCallRecord(n) ==
    [name |-> n, arguments |-> "args", result |-> Summary(n, ToolResult(n))]
Message(role, content, tool_calls) ==
    [role |-> role, content |-> content, toolCalls |-> tool_calls]
Messages ==
    { Message("user", Question, <<>>),
      Message("assistant", Answer, <<>>),
      Message("assistant", Answer, <<ToolCallRecord("get_statements")>>),
      Message("assistant", Answer,
              <<ToolCallRecord("list_card_providers"), ToolCallRecord("get_statements")>>),
      Message("assistant", <<>>,
              <<ToolCallRecord("get_statements"), ToolCallRecord("get_statements")>>) }

RECURSIVE SeqsUpTo(_, _)
SeqsUpTo(S, n) ==
    IF n = 0 THEN {<<>>}
    ELSE SeqsUpTo(S, n - 1) \cup {Append(q, x) : q \in SeqsUpTo(S, n - 1), x \in S}

Histories == SeqsUpTo(Messages, MaxHistory)
AgentHistories == SeqsUpTo(Messages, MaxAgentHistory)

\* Responses of the model, as candidate.content.parts: the plain tool
\* request, other requests, and answers without a function call.
PlainRequest == <<CallPart("get_statements")>>
OtherRequests ==
    { <<CallPart("list_card_providers"), CallPart("get_statements")>>,
      <<TextPart(<<"thinking">>), CallPart("list_card_providers")>>,
      <<CallPart("get_spending_summary")>>,
      <<CallPart(UnknownTool)>> }
TextResponses ==
    { <<>>, <<TextPart(Answer)>>, <<TextPart(<<"first">>), TextPart(<<"second">>)>> }

\* Events of the stream (the data of _sse_event).
ToolCallEvent(n, a) == [type |-> "tool_call", name |-> n, arguments |-> a]
ToolResultEvent(n, r) == [type |-> "tool_result", name |-> n, result |-> r]
MessageEvent(c, tcs) == [type |-> "message", content |-> c, tool_calls |-> tcs]
DoneEvent == [type |-> "done"]
ErrorEvent(e) == [type |-> "error", message |-> e]

AgentIdle ==
    /\ history = <<>>
    /\ contents = <<>>
    /\ apc = "idle"
    /\ iteration = 0
    /\ parts = <<>>
    /\ part = 0
    /\ has_function_call = FALSE
    /\ collected_tool_calls = <<>>
    /\ events = <<>>
    /\ model_calls = 0
    /\ executed = <<>>
    /\ mark = 0
    /\ exc = None

NoClock == [year |-> 0, month |-> 0]
SearchIdle ==
    /\ now = NoClock
    /\ queried = <<>>
    /\ listed = None
NoSendLocals ==
    [history_for_agent |-> <<>>, submitted |-> <<>>, yielded |-> <<>>,
     assistant_content |-> <<>>, assistant_tool_calls |-> <<>>, log |-> <<>>]
SendIdle ==
    /\ chat = <<>>
    /\ spc = [s \in Sends |-> "idle"]
    /\ sloc = [s \in Sends |-> NoSendLocals]
ToolIdle ==
    /\ args = None
    /\ spend_data = None
    /\ SearchIdle
    /\ SendIdle

\* _build_contents_from_history, lines 303-320: the turns of the recorded
\* tool calls of one assistant message.
RECURSIVE ToolCallTurns(_)
ToolCallTurns(tool_calls) ==
    IF tool_calls = <<>> THEN <<>>
    ELSE LET tc == Head(tool_calls) IN
         <<FunctionCallTurn(tc.name, tc.arguments)>>
         \o (IF tc.result # None
             THEN <<FunctionResponseTurn(tc.name, tc.result)>> ELSE <<>>)
         \o ToolCallTurns(Tail(tool_calls))

\* A reconstruction that puts the text turn of a message before its calls.
MessageTurnsTextFirst(msg) ==
    IF msg.role = "user" THEN <<TextTurn("user", msg.content)>>
    ELSE (IF msg.content # <<>> THEN <<TextTurn("model", msg.content)>> ELSE <<>>)
         \o ToolCallTurns(msg.toolCalls)

\* _build_contents_from_history, lines 291-325: the turns of one message.
MessageTurns(msg) ==
    IF msg.role = "user" THEN <<TextTurn("user", msg.content)>>
    ELSE IF msg.role = "assistant"
         THEN ToolCallTurns(msg.toolCalls)
              \o (IF msg.content # <<>> THEN <<TextTurn("model", msg.content)>> ELSE <<>>)
         ELSE <<>>

\* _build_contents_from_history
RECURSIVE build_contents_from_history(_)
build_contents_from_history(h) ==
    IF h = <<>> THEN <<>>
    ELSE MessageTurns(Head(h)) \o build_contents_from_history(Tail(h))

----------------------------------------------------------------------------
\* The state machine.

NoLocals ==
    [ refresh_token |-> "", card_providers |-> <<>>, pidx |-> 0,
      pdf_password |-> "", messages |-> <<>>, midx |-> 0,
      results |-> None, period_to |-> <<>>, ntx |-> 0,
      text |-> NoText, exc |-> None, reason |-> None,
      messages_found |-> 0 ]

NoStatements == [x \in {} |-> NoDoc]

InitStore ==
    /\ statements = NoStatements
    /\ transactions = {}
    /\ jobs = [j \in Jobs |-> NoDoc]
    /\ pc = [j \in Jobs |-> "idle"]
    /\ loc = [j \in Jobs |-> NoLocals]
    /\ outcomes = [j \in Jobs |-> <<>>]
    /\ calls = [j \in Jobs |-> {}]
    /\ AgentIdle
    /\ ToolIdle

\* Runs execute one at a time.
Init ==
    /\ user \in Users
    /\ cards \in CardConfigs
    /\ inbox \in Inboxes
    /\ pool = 1
    /\ faults = MaxFaults
    /\ InitStore

\* A sync request is in flight from its trigger until run_sync has ended.
InFlight(j) == pc[j] \notin {"idle", "returned", "raised"}
CanFault == faults > 0

\* The provider and the message a run is handling.
CurProvider(l) == l.card_providers[l.pidx]
CurMsg(l) == l.messages[l.midx]
CurTemp(l) == temp_id(CurProvider(l).id, CurMsg(l))
CurFinalByDate(l) == final_id(CurProvider(l).id, l.period_to)
CurFinal(l) == final_id(CurProvider(l).id, billing_month(l.period_to))

\* Locals of _process_message are dropped when it returns.
EndMessage(l) ==
    [l EXCEPT !.period_to = <<>>, !.ntx = 0, !.text = NoText, !.exc = None,
              !.reason = None]

\* Control after _process_message returns (the loops of sync_service.py:150
\* and :58): next message, next provider, or the job's completion.
AfterMessagePc(l) ==
    IF l.midx < Len(l.messages) THEN "idempotency"
    ELSE IF l.pidx < Len(l.card_providers) THEN "provider" ELSE "mark_done"
AfterMessageLoc(l) ==
    IF l.midx < Len(l.messages) THEN [EndMessage(l) EXCEPT !.midx = @ + 1]
    ELSE IF l.pidx < Len(l.card_providers)
         THEN [EndMessage(l) EXCEPT !.pidx = @ + 1, !.messages = <<>>, !.midx = 0,
                                    !.pdf_password = ""]
         ELSE [EndMessage(l) EXCEPT !.messages = <<>>, !.midx = 0, !.pdf_password = ""]

\* History: how the message in hand ended.
Outcome(j, l, result) ==
    [provider |-> CurProvider(l).id, msg |-> CurMsg(l), result |-> result,
     reason |-> IF l.exc # None THEN l.exc ELSE l.reason,
     calls |-> calls'[j]]

\* firestore_service.create_job, called by trigger_sync, which then hands
\* run_sync to a background thread.  run_sync reads the user record and the
\* card providers again, as they are when it runs.
create_job(j) ==
    /\ pc[j] = "idle"
    /\ \A i \in Jobs : i < j => pc[i] # "idle"
    /\ Cardinality({i \in Jobs : InFlight(i)}) < pool
    /\ jobs' = [jobs EXCEPT ![j] =
            [status |-> "pending", completedAt |-> None, results |-> None,
             errorReason |-> None]]
    /\ pc' = [pc EXCEPT ![j] = "queued"]
    /\ UNCHANGED <<user, cards, inbox, pool, statements, transactions, loc, faults,
                   outcomes, calls>>

\* firestore_service.update_job
update_job(js, j, data) == [js EXCEPT ![j] = MergeSet(js[j], data)]

\* _fail_job, as the last call of run_sync: the write, or the store's
\* exception leaving run_sync.
fail_job(j, reason) ==
    \/ /\ jobs' = update_job(jobs, j,
                [status |-> "failed", completedAt |-> Str("now", 0), errorReason |-> reason])
       /\ pc' = [pc EXCEPT ![j] = "returned"]
       /\ UNCHANGED faults
    \/ /\ CanFault
       /\ faults' = faults - 1
       /\ pc' = [pc EXCEPT ![j] = "raised"]
       /\ UNCHANGED jobs

\* A call inside run_sync's try block raises e: control goes to the
\* handler of sync_service.py:74.
RaiseToJob(j, e) ==
    /\ CanFault
    /\ faults' = faults - 1
    /\ pc' = [pc EXCEPT ![j] = "job_except"]
    /\ loc' = [loc EXCEPT ![j].exc = e]

\* sync_service.py:29, the first write of run_sync, outside its try block.
run_sync(j) ==
    /\ pc[j] = "queued"
    /\ \/ /\ jobs' = update_job(jobs, j, [status |-> "processing"])
          /\ pc' = [pc EXCEPT ![j] = "load_user"]
          /\ UNCHANGED faults
       \/ /\ CanFault
          /\ faults' = faults - 1
          /\ pc' = [pc EXCEPT ![j] = "raised"]
          /\ UNCHANGED jobs
    /\ UNCHANGED <<user, cards, inbox, pool, statements, transactions, loc, outcomes, calls>>

\* sync_service.py:33-48: load the user and decrypt the refresh token.
load_user(j) ==
    /\ pc[j] = "load_user"
    /\ \/ /\ \E e \in Errors : RaiseToJob(j, e)
          /\ UNCHANGED jobs
       \/ /\ user = NoDoc \/ ~FieldIs(user, "gmailConnected", TRUE)
          /\ fail_job(j, Str("gmail_not_connected", 19))
          /\ UNCHANGED loc
       \/ /\ user # NoDoc /\ FieldIs(user, "gmailConnected", TRUE)
          /\ "gmailRefreshToken" \notin DOMAIN user
          /\ fail_job(j, Str("no_refresh_token", 16))
          /\ UNCHANGED loc
       \/ /\ user # NoDoc /\ FieldIs(user, "gmailConnected", TRUE)
          /\ "gmailRefreshToken" \in DOMAIN user
          /\ ~DecryptOk(user.gmailRefreshToken)
          /\ fail_job(j, Str("refresh_token_decrypt_failed", 28))
          /\ UNCHANGED loc
       \/ /\ user # NoDoc /\ FieldIs(user, "gmailConnected", TRUE)
          /\ "gmailRefreshToken" \in DOMAIN user
          /\ DecryptOk(user.gmailRefreshToken)
          /\ loc' = [loc EXCEPT ![j].refresh_token = decrypt(user.gmailRefreshToken)]
          /\ pc' = [pc EXCEPT ![j] = "load_cards"]
          /\ UNCHANGED <<jobs, faults>>
    /\ UNCHANGED <<user, cards, inbox, pool, statements, transactions, outcomes, calls>>

\* sync_service.py:51-56: load the card providers, start the results.
load_cards(j) ==
    /\ pc[j] = "load_cards"
    /\ \/ /\ \E e \in Errors : RaiseToJob(j, e)
          /\ UNCHANGED jobs
       \/ /\ cards = <<>>
          /\ fail_job(j, Str("no_cards_configured", 19))
          /\ UNCHANGED loc
       \/ /\ cards # <<>>
          /\ loc' = [loc EXCEPT ![j].card_providers = cards, ![j].pidx = 1,
                        ![j].results = [processed |-> 0, skipped |-> 0, failed |-> 0,
                                        errors |-> <<>>]]
          /\ pc' = [pc EXCEPT ![j] = "provider"]
          /\ UNCHANGED <<jobs, faults>>
    /\ UNCHANGED <<user, cards, inbox, pool, statements, transactions, outcomes, calls>>

\* A call inside _process_message's try block raises e: control goes to
\* the handler of sync_service.py:382.
RaiseToMessage(j, e) ==
    /\ CanFault
    /\ faults' = faults - 1
    /\ pc' = [pc EXCEPT ![j] = "handler"]
    /\ loc' = [loc EXCEPT ![j].exc = e]

\* _process_message returns: its result is counted, control moves on.
Return(j, l, result) ==
    /\ pc' = [pc EXCEPT ![j] = AfterMessagePc(l)]
    /\ loc' = [loc EXCEPT ![j] = AfterMessageLoc(l)]
    /\ outcomes' = [outcomes EXCEPT ![j] = Append(@, Outcome(j, l, result))]

\* sync_service.py:79-147 _process_provider up to its message loop: decrypt
\* the PDF password (a failure is logged and leaves it empty), build the
\* query, search the mailbox.
process_provider(j) ==
    LET l == loc[j]
        provider == CurProvider(l)
        encrypted_password == provider.encryptedPassword
        pdf_password == IF DecryptOk(encrypted_password)
                        THEN decrypt(encrypted_password) ELSE ""
    IN
    /\ pc[j] = "provider"
    /\ \/ \* _build_service raises (the token refresh failed)
          \E e \in Errors : RaiseToJob(j, e)
       \/ \* the search returns the messages of the mailbox that match
          LET messages == search_messages(provider)
              l2 == [l EXCEPT !.pdf_password = pdf_password, !.messages = messages,
                              !.midx = IF messages = <<>> THEN 0 ELSE 1,
                              !.messages_found = @ + Len(messages)]
          IN  /\ pc' = [pc EXCEPT ![j] =
                       IF messages # <<>> THEN "idempotency"
                       ELSE IF l.pidx < Len(l.card_providers) THEN "provider"
                       ELSE "mark_done"]
              /\ loc' = [loc EXCEPT ![j] =
                       IF messages # <<>> THEN l2 ELSE AfterMessageLoc(l2)]
              /\ UNCHANGED faults
       \/ \* messages.list fails: search_messages logs it and returns nothing
          /\ CanFault
          /\ faults' = faults - 1
          /\ pc' = [pc EXCEPT ![j] =
                   IF l.pidx < Len(l.card_providers) THEN "provider" ELSE "mark_done"]
          /\ loc' = [loc EXCEPT ![j] = AfterMessageLoc(l)]
    /\ UNCHANGED <<user, cards, inbox, pool, statements, transactions, jobs, outcomes, calls>>

\* sync_service.py:186-194: the idempotency check, outside the try block.
idempotency(j) ==
    LET l == loc[j] IN
    /\ pc[j] = "idempotency"
    /\ calls' = [calls EXCEPT ![j] = {"statement_exists_by_gmail_id"}]
    /\ \/ /\ \E e \in Errors : RaiseToJob(j, e)
          /\ outcomes' = [outcomes EXCEPT ![j] = Append(@, Outcome(j, l, "raised"))]
       \/ /\ statement_exists_by_gmail_id(statements, CurMsg(l))
          /\ Return(j, [l EXCEPT !.results.skipped = @ + 1], "skipped")
          /\ UNCHANGED faults
       \/ /\ ~statement_exists_by_gmail_id(statements, CurMsg(l))
          /\ pc' = [pc EXCEPT ![j] = "provisional"]
          /\ UNCHANGED <<loc, faults, outcomes>>
    /\ UNCHANGED <<user, cards, inbox, pool, statements, transactions, jobs>>

\* sync_service.py:201-212: the provisional record, outside the try block.
provisional(j) ==
    LET l == loc[j] IN
    /\ pc[j] = "provisional"
    /\ calls' = [calls EXCEPT ![j] = @ \cup {"upsert_provisional"}]
    /\ \/ /\ \E e \in Errors : RaiseToJob(j, e)
          /\ outcomes' = [outcomes EXCEPT ![j] = Append(@, Outcome(j, l, "raised"))]
          /\ UNCHANGED statements
       \/ /\ statements' = upsert_statement(statements, CurTemp(l),
                    [cardProvider |-> CurProvider(l).id, gmailMessageId |-> CurMsg(l),
                     status |-> "processing", processedAt |-> None])
          /\ pc' = [pc EXCEPT ![j] = "download"]
          /\ UNCHANGED <<loc, faults, outcomes>>
    /\ UNCHANGED <<user, cards, inbox, pool, transactions, jobs>>

\* sync_service.py:218-219: the error raised for a message without a PDF.
NoPdfError == Str("No PDF attachment found in email", 32)

\* sync_service.py:215-224: download the PDF attachment.
download(j) ==
    LET l == loc[j] IN
    /\ pc[j] = "download"
    /\ calls' = [calls EXCEPT ![j] = @ \cup {"get_pdf_attachment"}]
    /\ \/ \* _build_service raises
          /\ \E e \in Errors : RaiseToMessage(j, e)
       \/ \* no PDF part, or a failed fetch: get_pdf_attachment returns None
          /\ CanFault
          /\ faults' = faults - 1
          /\ pc' = [pc EXCEPT ![j] = "handler"]
          /\ loc' = [loc EXCEPT ![j].exc = NoPdfError]
       \/ /\ pc' = [pc EXCEPT ![j] = IF l.pdf_password # "" THEN "decrypt" ELSE "readable"]
          /\ UNCHANGED <<loc, faults>>
    /\ UNCHANGED <<user, cards, inbox, pool, statements, transactions, jobs, outcomes>>

\* sync_service.py:226-242 and pdf_service.decrypt_pdf.
decrypt_pdf(j) ==
    /\ pc[j] = "decrypt"
    /\ calls' = [calls EXCEPT ![j] = @ \cup {"decrypt_pdf"}]
    /\ \/ \* pikepdf fails on something else than the password
          /\ \E e \in Errors : RaiseToMessage(j, e)
       \/ \* WrongPasswordError
          /\ CanFault
          /\ faults' = faults - 1
          /\ pc' = [pc EXCEPT ![j] = "mark_failed"]
          /\ loc' = [loc EXCEPT ![j].reason = Str("wrong_password", 14)]
       \/ /\ pc' = [pc EXCEPT ![j] = "readable"]
          /\ UNCHANGED <<loc, faults>>
    /\ UNCHANGED <<user, cards, inbox, pool, statements, transactions, jobs, outcomes>>

\* sync_service.py:246-258 and pdf_service.is_readable.
readability(j) ==
    /\ pc[j] = "readable"
    /\ calls' = [calls EXCEPT ![j] = @ \cup {"is_readable"}]
    /\ \E text \in Texts :
          IF is_readable(text)
          THEN /\ pc' = [pc EXCEPT ![j] = "extract"]
               /\ loc' = [loc EXCEPT ![j].text = text]
               /\ UNCHANGED faults
          ELSE /\ CanFault
               /\ faults' = faults - 1
               /\ pc' = [pc EXCEPT ![j] = "mark_failed"]
               /\ loc' = [loc EXCEPT ![j].text = text,
                                     ![j].reason = Str("scanned_pdf_unsupported", 23)]
    /\ UNCHANGED <<user, cards, inbox, pool, statements, transactions, jobs, outcomes>>

\* The reasons written at sync_service.py:271 and :296, and a variant that
\* records the first as an unclassified error.
UnclassifiedFailure == Str("error", 24)
ExtractionFailed == Str("gemini_extraction_failed", 24)
MissingPeriod == Str("missing_billing_period_to", 25)

\* sync_service.py:262-308 and gemini_service.extract_statement, which
\* returns None on any failure: of the call, of json.loads, or of the
\* validation of GeminiStatementOutput (a billing_period_to that is absent
\* or null fails it; an empty one passes).
extract_statement(j) ==
    LET l == loc[j]
        pdf == Content(CurMsg(l))
    IN
    /\ pc[j] = "extract"
    /\ calls' = [calls EXCEPT ![j] = @ \cup {"extract_statement"}]
    /\ \/ \* the call or the parse fails: None
          /\ CanFault
          /\ faults' = faults - 1
          /\ pc' = [pc EXCEPT ![j] = "mark_failed"]
          /\ loc' = [loc EXCEPT ![j].reason = ExtractionFailed]
       \/ \* the model leaves billing_period_to empty
          /\ CanFault
          /\ faults' = faults - 1
          /\ pc' = [pc EXCEPT ![j] = "mark_failed"]
          /\ loc' = [loc EXCEPT ![j].reason = MissingPeriod]
       \/ \* the model misreads the period's end
          /\ CanFault
          /\ faults' = faults - 1
          /\ \E d \in Dates \ {pdf.period_to} :
                loc' = [loc EXCEPT ![j].period_to = d, ![j].ntx = pdf.ntx]
          /\ pc' = [pc EXCEPT ![j] = "get_final"]
       \/ /\ loc' = [loc EXCEPT ![j].period_to = pdf.period_to, ![j].ntx = pdf.ntx]
          /\ pc' = [pc EXCEPT ![j] = "get_final"]
          /\ UNCHANGED faults
    /\ UNCHANGED <<user, cards, inbox, pool, statements, transactions, jobs, outcomes>>

\* The fields written to the provisional record of a failed message, and
\* a variant that leaves the reason out.
FailedDocNoReason(reason) == [status |-> "failed"]
FailedDoc(reason) == [status |-> "failed", errorReason |-> reason]

\* The entries appended to results["errors"].
ErrorLine(l, text) ==
    [provider |-> CurProvider(l).id, prefix |-> Take(CurMsg(l), TempPrefixLen), text |-> text]
WrongPasswordLine(l) ==
    [provider |-> CurProvider(l).id, prefix |-> <<>>, text |-> Str("wrong PDF password", 47)]
\* A failure that is counted but leaves no line in results["errors"].
FailedSilently(l, line) == [l EXCEPT !.results.failed = @ + 1]

Failed(l, line) ==
    [l EXCEPT !.results.failed = @ + 1, !.results.errors = Append(@, line)]

\* sync_service.py:310-312: is the billing month already processed?
get_final(j) ==
    LET l == loc[j]
        existing == get_statement(statements, CurFinal(l))
    IN
    /\ pc[j] = "get_final"
    /\ calls' = [calls EXCEPT ![j] = @ \cup {"get_statement"}]
    /\ \/ \E e \in Errors : RaiseToMessage(j, e)
       \/ /\ pc' = [pc EXCEPT ![j] =
                   IF existing # NoDoc /\ FieldIs(existing, "status", "processed")
                   THEN "delete_dup" ELSE "write_final"]
          /\ UNCHANGED <<loc, faults>>
    /\ UNCHANGED <<user, cards, inbox, pool, statements, transactions, jobs, outcomes>>

\* sync_service.py:313-319: the month is processed already; drop the
\* provisional record and count the message as skipped.
delete_dup(j) ==
    LET l == loc[j] IN
    /\ pc[j] = "delete_dup"
    /\ calls' = [calls EXCEPT ![j] = @ \cup {"delete_provisional"}]
    /\ \/ /\ \E e \in Errors : RaiseToMessage(j, e)
          /\ UNCHANGED <<statements, outcomes>>
       \/ /\ statements' = delete_statement(statements, CurTemp(l))
          /\ Return(j, [l EXCEPT !.results.skipped = @ + 1], "skipped_duplicate")
          /\ UNCHANGED faults
    /\ UNCHANGED <<user, cards, inbox, pool, transactions, jobs>>

\* sync_service.py:334-350: write the final statement.
write_final(j) ==
    LET l == loc[j] IN
    /\ pc[j] = "write_final"
    /\ calls' = [calls EXCEPT ![j] = @ \cup {"upsert_final"}]
    /\ \/ /\ \E e \in Errors : RaiseToMessage(j, e)
          /\ UNCHANGED statements
       \/ /\ statements' = upsert_statement(statements, CurFinal(l),
                    [cardProvider |-> CurProvider(l).id,
                     billingMonth |-> billing_month(l.period_to),
                     gmailMessageId |-> CurMsg(l),
                     status |-> "processed",
                     processedAt |-> Str("now", 0),
                     errorReason |-> None])
          /\ pc' = [pc EXCEPT ![j] = "delete_temp"]
          /\ UNCHANGED <<loc, faults>>
    /\ UNCHANGED <<user, cards, inbox, pool, transactions, jobs, outcomes>>

\* sync_service.py:351: delete the provisional record.
delete_temp(j) ==
    LET l == loc[j] IN
    /\ pc[j] = "delete_temp"
    /\ calls' = [calls EXCEPT ![j] = @ \cup {"delete_provisional"}]
    /\ \/ /\ \E e \in Errors : RaiseToMessage(j, e)
          /\ UNCHANGED statements
       \/ /\ statements' = delete_statement(statements, CurTemp(l))
          /\ pc' = [pc EXCEPT ![j] = "write_tx"]
          /\ UNCHANGED <<loc, faults>>
    /\ UNCHANGED <<user, cards, inbox, pool, transactions, jobs, outcomes>>

\* Variant: transactions that reference the provisional record.
tx_docs_provisional(j, l) ==
    { [cardProvider |-> CurProvider(l).id,
       statementId |-> CurTemp(l),
       billingMonth |-> billing_month(l.period_to),
       row |-> k,
       batch |-> <<j, CurProvider(l).id, CurMsg(l)>>] : k \in 1..l.ntx }

\* The documents batch_add_transactions adds for one statement; each gets
\* an automatic id, so two batches never share a document (batch, row).
tx_docs(j, l) ==
    { [cardProvider |-> CurProvider(l).id,
       statementId |-> CurFinal(l),
       billingMonth |-> billing_month(l.period_to),
       row |-> k,
       batch |-> <<j, CurProvider(l).id, CurMsg(l)>>] : k \in 1..l.ntx }

\* sync_service.py:353-380: write the transactions, count the message.
write_tx(j) ==
    LET l == loc[j] IN
    /\ pc[j] = "write_tx"
    /\ calls' = [calls EXCEPT ![j] = @ \cup {"batch_add_transactions"}]
    /\ \/ /\ \E e \in Errors : RaiseToMessage(j, e)
          /\ UNCHANGED <<transactions, outcomes>>
       \/ /\ transactions' = transactions \cup tx_docs(j, l)
          /\ Return(j, [l EXCEPT !.results.processed = @ + 1], "processed")
          /\ UNCHANGED faults
    /\ UNCHANGED <<user, cards, inbox, pool, statements, jobs>>

\* sync_service.py:237-242, 253-258, 270-275, 296-301: a classified
\* failure marks the provisional record and returns.
mark_failed(j) ==
    LET l == loc[j]
        line == IF l.reason = Str("wrong_password", 14) THEN WrongPasswordLine(l)
                ELSE ErrorLine(l, l.reason)
    IN
    /\ pc[j] = "mark_failed"
    /\ calls' = [calls EXCEPT ![j] = @ \cup {"upsert_failed"}]
    /\ \/ /\ \E e \in Errors : RaiseToMessage(j, e)
          /\ UNCHANGED <<statements, outcomes>>
       \/ /\ statements' = upsert_statement(statements, CurTemp(l),
                    FailedDoc(l.reason))
          /\ Return(j, Failed(l, line), "failed")
          /\ UNCHANGED faults
    /\ UNCHANGED <<user, cards, inbox, pool, transactions, jobs>>

\* sync_service.py:382-393: the handler of any exception of the try block.
\* An exception of its own write leaves _process_message.
handler(j) ==
    LET l == loc[j] IN
    /\ pc[j] = "handler"
    /\ calls' = [calls EXCEPT ![j] = @ \cup {"upsert_failed"}]
    /\ \/ /\ \E e \in Errors : RaiseToJob(j, e)
          /\ outcomes' = [outcomes EXCEPT ![j] = Append(@, Outcome(j, l, "raised"))]
          /\ UNCHANGED statements
       \/ /\ statements' = upsert_statement(statements, CurTemp(l),
                    FailedDoc(Slice(l.exc, MsgErrLen)))
          /\ Return(j, Failed(l, ErrorLine(l, Slice(l.exc, ListErrLen))), "failed")
          /\ UNCHANGED faults
    /\ UNCHANGED <<user, cards, inbox, pool, transactions, jobs>>

\* sync_service.py:61-69: mark the job complete.
mark_done(j) ==
    /\ pc[j] = "mark_done"
    /\ \/ /\ \E e \in Errors : RaiseToJob(j, e)
          /\ UNCHANGED jobs
       \/ /\ jobs' = update_job(jobs, j,
                    [status |-> "done", completedAt |-> Str("now", 0),
                     results |-> loc[j].results])
          /\ pc' = [pc EXCEPT ![j] = "last_sync"]
          /\ UNCHANGED <<loc, faults>>
    /\ UNCHANGED <<user, cards, inbox, pool, statements, transactions, outcomes, calls>>

\* A write to the user record that stores nothing.
upsert_nothing(u, data) == u

\* firestore_service.upsert_user
upsert_user(u, data) == MergeSet(u, data)

\* sync_service.py:70-72: record the time of the sync; run_sync returns.
last_sync(j) ==
    /\ pc[j] = "last_sync"
    /\ \/ /\ \E e \in Errors : RaiseToJob(j, e)
          /\ UNCHANGED user
       \/ /\ user' = upsert_user(user, [lastSyncAt |-> j])
          /\ pc' = [pc EXCEPT ![j] = "returned"]
          /\ UNCHANGED <<loc, faults>>
    /\ UNCHANGED <<cards, inbox, pool, statements, transactions, jobs, outcomes, calls>>

\* sync_service.py:74-76: the handler of run_sync's try block.
job_except(j) ==
    /\ pc[j] = "job_except"
    /\ fail_job(j, Slice(loc[j].exc, JobErrLen))
    /\ UNCHANGED <<user, cards, inbox, pool, statements, transactions, loc, outcomes, calls>>

Next ==
    /\ UNCHANGED <<agentvars, toolvars>>
    /\ \E j \in Jobs :
        \/ create_job(j)
        \/ run_sync(j)
        \/ load_user(j)
        \/ load_cards(j)
        \/ process_provider(j)
        \/ idempotency(j)
        \/ provisional(j)
        \/ download(j)
        \/ decrypt_pdf(j)
        \/ readability(j)
        \/ extract_statement(j)
        \/ get_final(j)
        \/ delete_dup(j)
        \/ write_final(j)
        \/ delete_temp(j)
        \/ write_tx(j)
        \/ mark_failed(j)
        \/ handler(j)
        \/ mark_done(j)
        \/ last_sync(j)
        \/ job_except(j)

Spec == Init /\ [][Next]_vars

\* Two sync requests may be in flight at once: their runs overlap.
InitOverlap ==
    /\ user = [gmailConnected |-> TRUE, gmailRefreshToken |-> encrypt("rt")]
    /\ cards = <<Provider("p1", "", encrypt("pw"))>>
    /\ inbox \in {i \in Inboxes : Len(i) \in 1..MaxOverlapMsgs}
    /\ pool = 2
    /\ faults = MaxFaults
    /\ InitStore

SpecOverlap == InitOverlap /\ [][Next]_vars

\* A store outage: calls may fail one after another, so that the handler
\* of a failure meets a failure of its own.  One user, one card provider,
\* runs one at a time.
InitOutage ==
    /\ user = [gmailConnected |-> TRUE, gmailRefreshToken |-> encrypt("rt")]
    /\ cards = <<Provider("p1", "", encrypt("pw"))>>
    /\ inbox \in {i \in Inboxes : Len(i) \in 1..MaxOutageMsgs}
    /\ pool = 1
    /\ faults = MaxOutageFaults
    /\ InitStore

SpecOutage == InitOutage /\ [][Next]_vars

----------------------------------------------------------------------------
\* The agent loop: run_agent_stream.

\* An exception that leaves the stream without passing through a handler.
RaiseUncaught(e) ==
    /\ exc' = e
    /\ apc' = "ended"

\* An exception inside the try block of run_agent_stream: control goes to
\* the handler of chat_agent_service.py:424.
RaiseInStream(e) ==
    /\ exc' = e
    /\ apc' = "except"

\* chat_agent_service.py:343-349: rebuild the conversation, append the
\* user's message.
start_stream ==
    /\ apc = "start"
    /\ \/ /\ contents' = Append(build_contents_from_history(history),
                                 TextTurn("user", Question))
          /\ collected_tool_calls' = <<>>
          /\ apc' = "model"
          /\ UNCHANGED exc
       \/ /\ \E e \in Errors : RaiseInStream(e)
          /\ UNCHANGED <<contents, collected_tool_calls>>
    /\ UNCHANGED <<history, iteration, parts, part, has_function_call, events,
                   model_calls, executed, mark>>
    /\ UNCHANGED <<syncvars, toolvars>>

\* A loop that never stops at the cap.
InRangeUnbounded(i) == i < MaxIterations + 1

\* chat_agent_service.py:351: for iteration in range(10).
InRange(i) == i < MaxIterations

\* chat_agent_service.py:351-363: one generate_content call and the first
\* look at its response.
call_model ==
    /\ apc = "model"
    /\ InRange(iteration)
    /\ model_calls' = model_calls + 1
    /\ \/ \* the call raises, or the response has no candidate or no parts list
          /\ \E e \in Errors : RaiseInStream(e)
          /\ UNCHANGED <<parts, part, has_function_call, executed, mark, faults>>
       \/ \E ps \in {PlainRequest} \cup TextResponses \cup OtherRequests :
          /\ IF ps \in OtherRequests
             THEN CanFault /\ faults' = faults - 1
             ELSE UNCHANGED faults
          /\ parts' = ps
          /\ part' = 1
          /\ has_function_call' = FALSE
          /\ executed' = <<>>
          /\ mark' = Len(contents)
          /\ apc' = "parts"
          /\ UNCHANGED exc
    /\ UNCHANGED <<history, contents, iteration, collected_tool_calls, events>>
    /\ UNCHANGED <<user, cards, inbox, pool, statements, transactions, jobs, pc, loc,
                   outcomes, calls, toolvars>>

\* A loop that walks the parts from the last to the first.
PartAtReversed(ps, i) == ps[Len(ps) + 1 - i]

\* The part the inner loop of line 365 handles at a given index.
PartAt(ps, i) == ps[i]

\* chat_agent_service.py:365-366: a part without function_call is passed.
skip_part ==
    /\ apc = "parts"
    /\ part <= Len(parts)
    /\ PartAt(parts, part).kind # "function_call"
    /\ part' = part + 1
    /\ UNCHANGED <<history, contents, apc, iteration, parts, has_function_call,
                   collected_tool_calls, events, model_calls, executed, mark, exc>>
    /\ UNCHANGED <<syncvars, toolvars>>

\* chat_agent_service.py:366-411: one function call: the tool_call event,
\* the execution, the summary, the tool_result event, the record, the two
\* turns.
execute_tool ==
    LET fc == PartAt(parts, part)
        tool_name == fc.name
        tool_args == fc.args
    IN
    /\ apc = "parts"
    /\ part <= Len(parts)
    /\ fc.kind = "function_call"
    /\ has_function_call' = TRUE
    /\ \E result \in {ToolResult(tool_name), ToolError(tool_name)} :
          \* an unknown tool gives an error result; an executor that raises
          \* gives one too (lines 380-386)
          /\ tool_name \notin KnownTools => result = ToolError(tool_name)
          /\ IF tool_name \in KnownTools /\ result = ToolError(tool_name)
             THEN CanFault /\ faults' = faults - 1
             ELSE UNCHANGED faults
          /\ \/ \* _summarize_result raises
                /\ events' = Append(events, ToolCallEvent(tool_name, tool_args))
                /\ IF SummaryRaises(tool_name, result)
                   THEN RaiseInStream(AttributeError)
                   ELSE \E e \in Errors : RaiseInStream(e)
                /\ UNCHANGED <<contents, collected_tool_calls, part, executed>>
             \/ LET summary == Summary(tool_name, result) IN
                /\ ~SummaryRaises(tool_name, result)
                /\ events' = events \o <<ToolCallEvent(tool_name, tool_args),
                                          ToolResultEvent(tool_name, summary)>>
                /\ collected_tool_calls' = Append(collected_tool_calls,
                        [name |-> tool_name, arguments |-> tool_args, result |-> summary])
                /\ contents' = contents \o <<FunctionCallTurn(tool_name, tool_args),
                                              FunctionResponseTurn(tool_name, result)>>
                /\ executed' = Append(executed, [name |-> tool_name, result |-> result])
                /\ part' = part + 1
                /\ UNCHANGED <<apc, exc>>
    /\ UNCHANGED <<history, iteration, parts, model_calls, mark>>
    /\ UNCHANGED <<user, cards, inbox, pool, statements, transactions, jobs, pc, loc,
                   outcomes, calls, toolvars>>

\* chat_agent_service.py:413-418: no function call: the text is the
\* final answer.
final_answer ==
    LET text == IF parts # <<>> THEN PartAt(parts, 1).text ELSE <<>> IN
    /\ apc = "parts"
    /\ part > Len(parts)
    /\ ~has_function_call
    /\ events' = events \o <<MessageEvent(text, collected_tool_calls), DoneEvent>>
    /\ apc' = "ended"
    /\ UNCHANGED <<history, contents, iteration, parts, part, has_function_call,
                   collected_tool_calls, model_calls, executed, mark, exc>>
    /\ UNCHANGED <<syncvars, toolvars>>

\* chat_agent_service.py:351: the calls are done, the loop goes on.
next_iteration ==
    /\ apc = "parts"
    /\ part > Len(parts)
    /\ has_function_call
    /\ iteration' = iteration + 1
    /\ apc' = IF InRange(iteration + 1) THEN "model" ELSE "max_iterations"
    /\ UNCHANGED <<history, contents, parts, part, has_function_call,
                   collected_tool_calls, events, model_calls, executed, mark, exc>>
    /\ UNCHANGED <<syncvars, toolvars>>

\* chat_agent_service.py:420-422: the loop is exhausted.
max_iterations_reached ==
    /\ apc = "max_iterations"
    /\ events' = events \o <<MessageEvent(MaxIterationsText, collected_tool_calls),
                              DoneEvent>>
    /\ apc' = "ended"
    /\ UNCHANGED <<history, contents, iteration, parts, part, has_function_call,
                   collected_tool_calls, model_calls, executed, mark, exc>>
    /\ UNCHANGED <<syncvars, toolvars>>

\* chat_agent_service.py:424-426: the handler of the try block.
stream_except ==
    /\ apc = "except"
    /\ events' = Append(events, ErrorEvent(exc))
    /\ apc' = "ended"
    /\ UNCHANGED <<history, contents, iteration, parts, part, has_function_call,
                   collected_tool_calls, model_calls, executed, mark, exc>>
    /\ UNCHANGED <<syncvars, toolvars>>

NextAgent ==
    \/ start_stream
    \/ call_model
    \/ skip_part
    \/ execute_tool
    \/ final_answer
    \/ next_iteration
    \/ max_iterations_reached
    \/ stream_except

\* The store and the sync runs at rest while the agent runs.
SyncIdle ==
    /\ user = [gmailConnected |-> TRUE, gmailRefreshToken |-> encrypt("rt")]
    /\ cards = <<>>
    /\ inbox = <<>>
    /\ pool = 0
    /\ statements = NoStatements
    /\ transactions = {}
    /\ jobs = [j \in Jobs |-> NoDoc]
    /\ pc = [j \in Jobs |-> "idle"]
    /\ loc = [j \in Jobs |-> NoLocals]
    /\ outcomes = [j \in Jobs |-> <<>>]
    /\ calls = [j \in Jobs |-> {}]

InitAgent ==
    /\ SyncIdle
    /\ faults = MaxAgentDeviations
    /\ history \in AgentHistories
    /\ contents = <<>>
    /\ apc = "start"
    /\ iteration = 0
    /\ parts = <<>>
    /\ part = 0
    /\ has_function_call = FALSE
    /\ collected_tool_calls = <<>>
    /\ events = <<>>
    /\ model_calls = 0
    /\ executed = <<>>
    /\ mark = 0
    /\ exc = None
    /\ ToolIdle

SpecAgent == InitAgent /\ [][NextAgent]_vars

----------------------------------------------------------------------------
\* History reconstruction on its own: _build_contents_from_history applied
\* to a persisted conversation.

rebuild_history ==
    /\ apc = "start"
    /\ contents' = build_contents_from_history(history)
    /\ apc' = "rebuilt"
    /\ UNCHANGED <<history, iteration, parts, part, has_function_call,
                   collected_tool_calls, events, model_calls, executed, mark, exc>>
    /\ UNCHANGED <<syncvars, toolvars>>

NextHistory == rebuild_history

InitHistory ==
    /\ SyncIdle
    /\ faults = 0
    /\ history \in Histories
    /\ contents = <<>>
    /\ apc = "start"
    /\ iteration = 0
    /\ parts = <<>>
    /\ part = 0
    /\ has_function_call = FALSE
    /\ collected_tool_calls = <<>>
    /\ events = <<>>
    /\ model_calls = 0
    /\ executed = <<>>
    /\ mark = 0
    /\ exc = None
    /\ ToolIdle

SpecHistory == InitHistory /\ [][NextHistory]_vars

----------------------------------------------------------------------------
\* The get_spending_summary tool on its own.

\* Amounts are in thousandths of the currency unit.  round(x, 2): to the
\* nearest hundredth, a tie to the even hundredth.
Round2(x) ==
    LET q == x \div 10
        r == x % 10
    IN  IF r < 5 THEN 10 * q
        ELSE IF r > 5 THEN 10 * (q + 1)
        ELSE IF q % 2 = 0 THEN 10 * q ELSE 10 * (q + 1)

\* doc.get(field, default)
Get(doc, field, default) == IF field \in DOMAIN doc THEN doc[field] ELSE default

\* Stored transactions as the tool reads them.
SpendTx(row, month, card, kind, amount, category) ==
    [row |-> row, billingMonth |-> month, cardProvider |-> card,
     debitOrCredit |-> kind, amount |-> amount, category |-> category]
January == billing_month(Jan31)
February == billing_month(Feb29)
March == billing_month(Mar31)
SpendTxs ==
    { SpendTx(1, January, "p1", "debit", 100000, "Food"),
      SpendTx(2, January, "p1", "credit", 50000, "Food"),
      SpendTx(3, January, "p2", "debit", 30000, "Travel"),
      SpendTx(4, January, "p2", "debit", 10990, "Food"),
      SpendTx(5, February, "p1", "debit", 20000, "Food"),
      [row |-> 6, billingMonth |-> January, cardProvider |-> "p1",
       debitOrCredit |-> "debit", amount |-> 5010] }

\* The billing_months argument the model passes.
MonthLists ==
    { <<>>, <<January>>, <<February>>, <<March>>,
      <<January, February>>, <<January, January>> }

\* firestore_service.py:225-235: one query per element of the list, the
\* results concatenated.  The result is a bag: a transaction comes back
\* once for every occurrence of its month in the list.
Occurrences(months, month) == Cardinality({i \in DOMAIN months : months[i] = month})
get_transactions_for_months(txs, months) ==
    LET found == {t \in txs : Occurrences(months, t.billingMonth) > 0}
    IN  [t \in found |-> Occurrences(months, t.billingMonth)]

\* The sum of the amounts of the transactions of a bag.
RECURSIVE SumAmounts(_, _)
SumAmounts(bag, S) ==
    IF S = {} THEN 0
    ELSE LET t == CHOOSE x \in S : TRUE
         IN  Get(t, "amount", 0) * bag[t] + SumAmounts(bag, S \ {t})

RECURSIVE Copies(_, _)
Copies(bag, S) ==
    IF S = {} THEN 0
    ELSE LET t == CHOOSE x \in S : TRUE IN bag[t] + Copies(bag, S \ {t})

\* chat_agent_service.py:180-197: the entry of one month.
MonthSummary(fetched, month) ==
    LET month_txs == {t \in DOMAIN fetched : t.billingMonth = month}
        debits == {t \in month_txs : Get(t, "debitOrCredit", None) = "debit"}
        Category(t) == Get(t, "category", "Other")
        Card(t) == Get(t, "cardProvider", "unknown")
    IN  [total |-> Round2(SumAmounts(fetched, debits)),
         by_card |-> [c \in {Card(t) : t \in debits} |->
                        Round2(SumAmounts(fetched, {t \in debits : Card(t) = c}))],
         by_category |-> [c \in {Category(t) : t \in debits} |->
                        Round2(SumAmounts(fetched, {t \in debits : Category(t) = c}))],
         transaction_count |-> Copies(fetched, month_txs)]

\* chat_agent_service.py:173-200
execute_get_spending_summary ==
    /\ args # None
    /\ spend_data = None
    /\ LET billing_months == args.billing_months
           fetched == get_transactions_for_months(transactions, billing_months)
       IN  spend_data' = [month \in {billing_months[i] : i \in DOMAIN billing_months} |->
                            MonthSummary(fetched, month)]
    /\ UNCHANGED <<syncvars, agentvars, args, now, queried, listed, sendvars>>

NextSummary == execute_get_spending_summary

InitSummary ==
    /\ user = [gmailConnected |-> TRUE, gmailRefreshToken |-> encrypt("rt")]
    /\ cards = <<>>
    /\ inbox = <<>>
    /\ pool = 0
    /\ statements = NoStatements
    /\ transactions \in SUBSET SpendTxs
    /\ jobs = [j \in Jobs |-> NoDoc]
    /\ pc = [j \in Jobs |-> "idle"]
    /\ loc = [j \in Jobs |-> NoLocals]
    /\ outcomes = [j \in Jobs |-> <<>>]
    /\ calls = [j \in Jobs |-> {}]
    /\ faults = 0
    /\ AgentIdle
    /\ args \in {[billing_months |-> ms] : ms \in MonthLists}
    /\ spend_data = None
    /\ SearchIdle
    /\ SendIdle

SpecSummary == InitSummary /\ [][NextSummary]_vars

----------------------------------------------------------------------------
\* The search_transactions tool on its own: the months it queries.

\* f"{n:0wd}": the decimal digits of n, zeros added on the left up to
\* width w.
DigitChars == <<"0", "1", "2", "3", "4", "5", "6", "7", "8", "9">>
RECURSIVE Decimal(_)
Decimal(n) ==
    IF n < 10 THEN <<DigitChars[n + 1]>>
    ELSE Append(Decimal(n \div 10), DigitChars[(n % 10) + 1])
RECURSIVE ZeroPad(_, _)
ZeroPad(s, w) == IF Len(s) >= w THEN s ELSE ZeroPad(<<"0">> \o s, w)
Format(n, w) == ZeroPad(Decimal(n), w)

\* A window that wraps the month and keeps the year.
MonthBackSameYear(clock, i) ==
    LET month == clock.month - i
    IN  [year |-> clock.year, month |-> IF month <= 0 THEN month + 12 ELSE month]

\* chat_agent_service.py:117-122: the month i months before the clock's.
MonthBack(clock, i) ==
    LET month == clock.month - i
    IN  IF month <= 0 THEN [year |-> clock.year - 1, month |-> month + 12]
        ELSE [year |-> clock.year, month |-> month]

\* chat_agent_service.py:114-123: "Default to last 3 months".
DefaultMonths(clock) ==
    [k \in 1..3 |->
        LET m == MonthBack(clock, k - 1)
        IN  Format(m.year, 4) \o <<"-">> \o Format(m.month, 2)]

\* The arguments the model passes: with or without billing_month and
\* billing_months, empty or not.
SearchArgs ==
    { [category |-> "Food"],
      [limit |-> 5],
      [billing_months |-> <<>>],
      [billing_month |-> <<>>],
      [billing_month |-> January],
      [billing_months |-> <<January, February>>],
      [billing_months |-> <<>>, billing_month |-> March],
      [billing_months |-> <<January>>, billing_month |-> March] }

\* chat_agent_service.py:107-125: the months search_transactions passes
\* to get_transactions_for_months.  The filters, the sort and the limit
\* that follow (127-163) work on the list that call returned.
execute_search_transactions ==
    /\ args # None
    /\ queried = <<>>
    /\ LET given == Get(args, "billing_months", <<>>)
           single == Get(args, "billing_month", <<>>)
           billing_months == IF given = <<>> /\ single # <<>> THEN <<single>> ELSE given
       IN  queried' = IF billing_months = <<>> THEN DefaultMonths(now) ELSE billing_months
    /\ UNCHANGED <<syncvars, agentvars, args, spend_data, now, listed, sendvars>>

NextSearch == execute_search_transactions

\* The clock is in any month of a few years.
Clocks == {[year |-> 2023 + y, month |-> m] : y \in 1..NumYears, m \in 1..12}

InitSearch ==
    /\ SyncIdle
    /\ faults = 0
    /\ AgentIdle
    /\ args \in SearchArgs
    /\ spend_data = None
    /\ now \in Clocks
    /\ queried = <<>>
    /\ listed = None
    /\ SendIdle

SpecSearch == InitSearch /\ [][NextSearch]_vars

----------------------------------------------------------------------------
\* The list_card_providers tool on its own.

\* Card provider documents as the card router stores them; a provider
\* without a PDF password has no encryptedPassword field.
StoredProvider(id, name, pattern, keyword) ==
    [id |-> id, name |-> name, emailSenderPattern |-> pattern, subjectKeyword |-> keyword]
WithPassword(p, pw) ==
    [f \in DOMAIN p \cup {"encryptedPassword"} |->
        IF f = "encryptedPassword" THEN pw ELSE p[f]]
PlainProviders ==
    { StoredProvider("p1", "HDFC", "bankA", "statement"),
      StoredProvider("p1", "HDFC", "", ""),
      StoredProvider("p2", "Axis", "bankB", "statement"),
      StoredProvider("p2", "Axis Ace", "bankB", "") }
StoredProviders ==
    PlainProviders
    \cup {WithPassword(p, pw) : p \in PlainProviders,
                                pw \in {encrypt("pw"), encrypt("other"), Garbled("pw")}}
ProviderStores ==
    {s \in SeqsUpTo(StoredProviders, MaxProviders) :
        \A i, k \in DOMAIN s : i # k => s[i].id # s[k].id}

\* A listing that hands every stored field on.
WholeProvider(p) == p

\* chat_agent_service.py:223-229: the four fields copied for one provider.
SafeProvider(p) ==
    [id |-> p.id, name |-> p.name, emailSenderPattern |-> p.emailSenderPattern,
     subjectKeyword |-> p.subjectKeyword]

\* chat_agent_service.py:219-230: the object the tool serialises.
ListCardProviders(store) ==
    [count |-> Len(store), providers |-> [i \in DOMAIN store |-> SafeProvider(store[i])]]

execute_list_card_providers ==
    /\ listed = None
    /\ listed' = ListCardProviders(cards)
    /\ UNCHANGED <<syncvars, agentvars, args, spend_data, now, queried, sendvars>>

NextProviders == execute_list_card_providers

InitProviders ==
    /\ user = [gmailConnected |-> TRUE, gmailRefreshToken |-> encrypt("rt")]
    /\ cards \in ProviderStores
    /\ inbox = <<>>
    /\ pool = 0
    /\ InitStore
    /\ faults = 0
    /\ listed = None

SpecProviders == InitProviders /\ [][NextProviders]_vars

----------------------------------------------------------------------------
\* POST /chat/send: send_message and its event_stream, for requests to one
\* existing chat.

\* The text each request sends.
UserText(s) == <<"question">> \o [k \in 1..s |-> "again"]

\* What the chat holds before the requests.
ChatHistories ==
    { <<>>,
      <<Message("user", Question, <<>>),
        Message("assistant", Answer, <<ToolCallRecord("get_statements")>>)>> }

\* The events run_agent_stream can yield, start to end: an answer, an
\* answer after a tool call, a message without text after a tool call, a
\* message without text or calls, an error at once, an error after a tool
\* call.
ToolEvents ==
    <<ToolCallEvent("get_statements", "args"),
      ToolResultEvent("get_statements", Summary("get_statements", ToolResult("get_statements")))>>
Streams ==
    { <<MessageEvent(Answer, <<>>), DoneEvent>>,
      ToolEvents \o <<MessageEvent(Answer, <<ToolCallRecord("get_statements")>>), DoneEvent>>,
      ToolEvents \o <<MessageEvent(<<>>, <<ToolCallRecord("get_statements")>>), DoneEvent>>,
      <<MessageEvent(<<>>, <<>>), DoneEvent>>,
      <<ErrorEvent(Str("error", 600))>>,
      ToolEvents \o <<ErrorEvent(Str("error", 600))>> }

\* _sse_event: the event's type on the event line, the rest as the JSON
\* object of the data line.
sse_event(e) == [event |-> e.type, data |-> [f \in DOMAIN e \ {"type"} |-> e[f]]]

\* routers/chat.py:108-112: the content and tool_calls of the last
\* message event among the yielded events; "" and [] without one.
RECURSIVE Accumulate(_, _)
Accumulate(wires, acc) ==
    IF wires = <<>> THEN acc
    ELSE LET w == Head(wires)
             next == IF w.event = "message"
                     THEN [content |-> Get(w.data, "content", <<>>),
                           tool_calls |-> Get(w.data, "tool_calls", <<>>)]
                     ELSE acc
         IN  Accumulate(Tail(wires), next)

\* A request that persists an assistant message whatever the stream gave.
AlwaysPersist(content, tool_calls) == TRUE

\* routers/chat.py:119: if assistant_content or assistant_tool_calls.
ShouldPersist(content, tool_calls) == content # <<>> \/ tool_calls # <<>>

Logged(s, step) == [sloc EXCEPT ![s].log = Append(@, step)]

\* routers/chat.py:80-85: add_message for the user's message.
persist_user_message(s) ==
    /\ spc[s] = "idle"
    /\ \/ /\ chat' = Append(chat, Message("user", UserText(s), <<>>))
          /\ spc' = [spc EXCEPT ![s] = "load"]
          /\ sloc' = Logged(s, "user_persisted")
       \/ \* the write raises: the request fails
          /\ spc' = [spc EXCEPT ![s] = "failed"]
          /\ UNCHANGED <<chat, sloc>>
    /\ UNCHANGED <<syncvars, agentvars, args, spend_data, now, queried, listed>>

\* routers/chat.py:88-90: get_messages, then history[:-1].
load_history(s) ==
    /\ spc[s] = "load"
    /\ \/ /\ sloc' = [sloc EXCEPT ![s].history_for_agent =
                        IF chat # <<>> THEN SubSeq(chat, 1, Len(chat) - 1) ELSE <<>>]
          /\ spc' = [spc EXCEPT ![s] = "stream"]
       \/ \* the read raises: the request fails
          /\ spc' = [spc EXCEPT ![s] = "failed"]
          /\ UNCHANGED sloc
    /\ UNCHANGED <<syncvars, agentvars, args, spend_data, now, queried, listed, chat>>

\* routers/chat.py:92-116 and chat_agent_service.py:342-347: event_stream
\* iterates run_agent_stream(uid, body.message, history_for_agent), which
\* submits the rebuilt history followed by the message; every event is
\* passed on, and the message event is parsed.
event_stream(s) ==
    /\ spc[s] = "stream"
    /\ \E stream \in Streams :
          LET wires == [k \in DOMAIN stream |-> sse_event(stream[k])]
              acc == Accumulate(wires, [content |-> <<>>, tool_calls |-> <<>>])
          IN  sloc' = [sloc EXCEPT
                  ![s].submitted = Append(build_contents_from_history(sloc[s].history_for_agent),
                                          TextTurn("user", UserText(s))),
                  ![s].yielded = wires,
                  ![s].assistant_content = acc.content,
                  ![s].assistant_tool_calls = acc.tool_calls,
                  ![s].log = @ \o <<"stream_started", "stream_ended">>]
    /\ spc' = [spc EXCEPT ![s] = "finally"]
    /\ UNCHANGED <<syncvars, agentvars, args, spend_data, now, queried, listed, chat>>

\* routers/chat.py:117-125: the finally block of event_stream.
persist_assistant_message(s) ==
    /\ spc[s] = "finally"
    /\ IF ShouldPersist(sloc[s].assistant_content, sloc[s].assistant_tool_calls)
       THEN \/ /\ chat' = Append(chat, Message("assistant", sloc[s].assistant_content,
                                                 sloc[s].assistant_tool_calls))
               /\ sloc' = Logged(s, "assistant_persisted")
               /\ spc' = [spc EXCEPT ![s] = "done"]
            \/ \* the write raises out of the generator
               /\ spc' = [spc EXCEPT ![s] = "failed"]
               /\ UNCHANGED <<chat, sloc>>
       ELSE /\ spc' = [spc EXCEPT ![s] = "done"]
            /\ UNCHANGED <<chat, sloc>>
    /\ UNCHANGED <<syncvars, agentvars, args, spend_data, now, queried, listed>>

NextSend ==
    \E s \in Sends :
        \/ persist_user_message(s)
        \/ load_history(s)
        \/ event_stream(s)
        \/ persist_assistant_message(s)

InitSend ==
    /\ SyncIdle
    /\ faults = 0
    /\ AgentIdle
    /\ args = None
    /\ spend_data = None
    /\ SearchIdle
    /\ chat \in ChatHistories
    /\ spc = [s \in Sends |-> "idle"]
    /\ sloc = [s \in Sends |-> NoSendLocals]

SpecSend == InitSend /\ [][NextSend]_vars

----------------------------------------------------------------------------
\* Properties of the agent loop.

\* The number of events of one type the stream has emitted.
CountEvents(type) == Cardinality({i \in 1..Len(events) : events[i].type = type})

\* The stream has ended after ten rounds that each executed function calls.
CapExhausted == apc = "ended" /\ iteration = MaxIterations

\* C13: one invocation of run_agent_stream makes at most 10 model calls;
\* when all 10 responses asked for function calls the stream ends with
\* exactly one message event, the degraded final message, followed by
\* exactly one done event, with no error event and 10 model calls.
C13_IterationCap ==
    /\ model_calls <= MaxIterations
    /\ CapExhausted =>
          /\ model_calls = MaxIterations
          /\ CountEvents("message") = 1
          /\ CountEvents("done") = 1
          /\ CountEvents("error") = 0
          /\ Len(events) >= 2
          /\ events[Len(events) - 1] = MessageEvent(MaxIterationsText, collected_tool_calls)
          /\ events[Len(events)] = DoneEvent

\* C13 witness: a stream that ended on the cap after 10 model calls, each
\* of whose responses had a function call executed.
C13_Witness ==
    /\ CapExhausted
    /\ model_calls = MaxIterations
    /\ Len(collected_tool_calls) >= MaxIterations

\* The text of a response: the texts of its text parts, in order.
RECURSIVE ResponseText(_)
ResponseText(ps) ==
    IF ps = <<>> THEN <<>>
    ELSE (IF Head(ps).kind = "text" THEN Head(ps).text ELSE <<>>) \o ResponseText(Tail(ps))

\* The stream has ended on a response without a function-call part.
EndedOnText ==
    /\ apc = "ended"
    /\ exc = None
    /\ iteration < MaxIterations
    /\ ~has_function_call

\* C14: a stream that ended on a response with no function-call part
\* emitted exactly one message event, carrying the text of that response,
\* then exactly one done event, and executed no tool for that response.
C14_TextIsFinal ==
    EndedOnText =>
        /\ CountEvents("message") = 1
        /\ CountEvents("done") = 1
        /\ Len(events) >= 2
        /\ events[Len(events) - 1] = MessageEvent(ResponseText(parts), collected_tool_calls)
        /\ events[Len(events)] = DoneEvent
        /\ executed = <<>>

\* The recorded calls whose executor raised: a known tool with an error
\* result.
RaisedCalls ==
    {i \in 1..Len(collected_tool_calls) :
        /\ collected_tool_calls[i].name \in KnownTools
        /\ collected_tool_calls[i].result = Summary(collected_tool_calls[i].name,
                                                     ToolError(collected_tool_calls[i].name))}

\* The stream is in its handler or has ended with exactly one error event,
\* its last event.
EndsInError(e) ==
    /\ apc \in {"except", "ended"}
    /\ apc = "except" => CountEvents("error") = 0
    /\ apc = "ended" =>
          /\ CountEvents("error") = 1
          /\ events # <<>>
          /\ events[Len(events)] = ErrorEvent(e)

\* C15 as stated: an exception raised anywhere in run_agent_stream, tool
\* execution included, gives exactly one error event and ends the stream.
C15_AnyExceptionEndsStream ==
    /\ exc # None => EndsInError(exc)
    /\ RaisedCalls # {} => apc \in {"except", "ended"} /\ CountEvents("error") <= 1
    /\ (RaisedCalls # {} /\ apc = "ended") => CountEvents("error") = 1

\* C15 amended: an exception raised by history reconstruction, the model
\* call, the inspection of the response or the summarisation gives
\* exactly one error event, the last event of the stream, and nothing
\* propagates; an exception raised by a tool executor is caught on the
\* spot: the call gets a tool_result event and a function-response turn
\* carrying the error, and no error event is emitted for it.
C15_ExceptionEndsStream ==
    /\ exc # None => EndsInError(exc)
    /\ exc = None => CountEvents("error") = 0
    /\ \A i \in RaisedCalls :
          LET name == collected_tool_calls[i].name IN
          /\ \E k \in 1..Len(events) :
                events[k] = ToolResultEvent(name, Summary(name, ToolError(name)))
          /\ \E k \in 1..Len(contents) :
                contents[k] = FunctionResponseTurn(name, ToolError(name))

\* C15 witness: a stream in which a tool executor raised and the loop went
\* on, and which a later exception ended with an error event.
C15_Witness ==
    /\ apc = "ended"
    /\ exc # None
    /\ RaisedCalls # {}
    /\ events[Len(events)] = ErrorEvent(exc)

\* The function-call parts of a sequence of parts, in order.
IsCall(p) == p.kind = "function_call"
FunctionCalls(ps) == SelectSeq(ps, IsCall)

\* The function calls of the current response the inner loop has passed.
CallsPassed == FunctionCalls(SubSeq(parts, 1, part - 1))

\* C16: within one iteration the function calls executed so far are the
\* first function calls of the response, in the model's order; the
\* conversation has grown since the model call by exactly their
\* function-call and function-response turns, pairwise in that order;
\* and the next model call is made only when every function call of the
\* response has been executed.
C16_CallsInOrder ==
    /\ apc = "parts" =>
          /\ Len(executed) = Len(CallsPassed)
          /\ \A k \in 1..Len(executed) : executed[k].name = CallsPassed[k].name
    /\ (model_calls > 0 /\ apc \in {"parts", "model", "max_iterations"}) =>
          /\ Len(contents) = mark + 2 * Len(executed)
          /\ \A k \in 1..Len(executed) :
                /\ contents[mark + 2 * k - 1] =
                      FunctionCallTurn(executed[k].name, CallsPassed[k].args)
                /\ contents[mark + 2 * k] =
                      FunctionResponseTurn(executed[k].name, executed[k].result)
    /\ apc \in {"model", "max_iterations"} =>
          /\ Len(executed) = Len(FunctionCalls(parts))
          /\ \A k \in 1..Len(executed) : executed[k].name = FunctionCalls(parts)[k].name

\* C16 witness: a response with two different function calls, both
\* executed, and the loop about to call the model again.
C16_Witness ==
    /\ apc = "model"
    /\ Len(executed) = 2
    /\ executed[1].name # executed[2].name
    /\ Len(contents) = mark + 4

\* The number of turns the claim gives a persisted message, and the number
\* of turns before those of the i-th message of a history.
TurnsOf(msg) ==
    IF msg.role = "user" THEN 1
    ELSE 2 * Len(msg.toolCalls) + (IF msg.content # <<>> THEN 1 ELSE 0)

RECURSIVE TurnsBefore(_, _)
TurnsBefore(h, i) == IF i <= 1 THEN 0 ELSE TurnsBefore(h, i - 1) + TurnsOf(h[i - 1])

\* C17: the rebuilt conversation is the concatenation, in history order,
\* of: for a user message exactly one user text turn; for an assistant
\* message with n recorded tool calls exactly n function-call /
\* function-response pairs in recorded order, followed by exactly one
\* model text turn if the content is non-empty.
C17_HistoryRebuilt ==
    apc = "rebuilt" =>
        /\ Len(contents) = TurnsBefore(history, Len(history) + 1)
        /\ \A i \in 1..Len(history) :
              LET msg == history[i]
                  off == TurnsBefore(history, i)
                  n == Len(msg.toolCalls)
              IN
              IF msg.role = "user"
              THEN contents[off + 1] = TextTurn("user", msg.content)
              ELSE /\ \A k \in 1..n :
                        /\ contents[off + 2 * k - 1] =
                              FunctionCallTurn(msg.toolCalls[k].name, msg.toolCalls[k].arguments)
                        /\ contents[off + 2 * k] =
                              FunctionResponseTurn(msg.toolCalls[k].name, msg.toolCalls[k].result)
                   /\ msg.content # <<>> =>
                        contents[off + 2 * n + 1] = TextTurn("model", msg.content)

\* C17 witness: a rebuilt history of a user message and an assistant
\* message with two different tool calls and a text: 1 + 2 * 2 + 1 turns.
C17_Witness ==
    /\ apc = "rebuilt"
    /\ Len(history) = 2
    /\ history[1].role = "user"
    /\ history[2].role = "assistant"
    /\ Len(history[2].toolCalls) = 2
    /\ history[2].toolCalls[1].name # history[2].toolCalls[2].name
    /\ history[2].content # <<>>
    /\ Len(contents) = 6

----------------------------------------------------------------------------
\* Properties of the spending summary.

\* The sum of the amounts of a set of stored transactions.
RECURSIVE SumOf(_)
SumOf(S) ==
    IF S = {} THEN 0
    ELSE LET t == CHOOSE x \in S : TRUE IN Get(t, "amount", 0) + SumOf(S \ {t})

\* The stored debit transactions of a month.
DebitsOf(month) ==
    {t \in transactions : t.billingMonth = month /\ Get(t, "debitOrCredit", None) = "debit"}

\* The sum of the values of a breakdown.
RECURSIVE SumValues(_, _)
SumValues(f, K) ==
    IF K = {} THEN 0
    ELSE LET k == CHOOSE x \in K : TRUE IN f[k] + SumValues(f, K \ {k})

\* C18: for every requested month the summary's total is the sum of the
\* amounts of that month's stored debit transactions, by_category and
\* by_card give that sum per category and per card provider and add up
\* to the total; credit transactions add to nothing.
C18_DebitTotals ==
    spend_data # None =>
        /\ DOMAIN spend_data = {args.billing_months[i] : i \in DOMAIN args.billing_months}
        /\ \A month \in DOMAIN spend_data :
              LET entry == spend_data[month]
                  debits == DebitsOf(month)
              IN
              /\ entry.total = SumOf(debits)
              /\ DOMAIN entry.by_category = {Get(t, "category", "Other") : t \in debits}
              /\ \A c \in DOMAIN entry.by_category :
                    entry.by_category[c] =
                        SumOf({t \in debits : Get(t, "category", "Other") = c})
              /\ DOMAIN entry.by_card = {Get(t, "cardProvider", "unknown") : t \in debits}
              /\ \A c \in DOMAIN entry.by_card :
                    entry.by_card[c] =
                        SumOf({t \in debits : Get(t, "cardProvider", "unknown") = c})
              /\ SumValues(entry.by_category, DOMAIN entry.by_category) = entry.total
              /\ SumValues(entry.by_card, DOMAIN entry.by_card) = entry.total

----------------------------------------------------------------------------
\* Properties of the sync pipeline.

Processed(id) == FieldIs(statements[id], "status", "processed")

\* C1: whatever runs have taken place, one after another or overlapping,
\* the store holds at most one processed Statement for a card provider and
\* a billing month.
C1_OneProcessedPerMonth ==
    \A a, b \in DOMAIN statements :
        ( /\ Processed(a) /\ Processed(b)
          /\ statements[a].cardProvider = statements[b].cardProvider
          /\ statements[a].billingMonth = statements[b].billingMonth )
        => a = b

\* Two overlapping runs have each just written the final Statement of the
\* same month, from two different messages.
C1_Witness ==
    \E i, j \in Jobs :
        /\ i # j
        /\ pc[i] = "delete_temp" /\ pc[j] = "delete_temp"
        /\ CurFinal(loc[i]) = CurFinal(loc[j])
        /\ CurMsg(loc[i]) # CurMsg(loc[j])
        /\ Processed(CurFinal(loc[i]))

\* A processed Statement references the message.
Referenced(msg_id) ==
    \E id \in DOMAIN statements :
        Processed(id) /\ FieldIs(statements[id], "gmailMessageId", msg_id)

\* Run j takes a step.
Stepped(j) == pc'[j] # pc[j] \/ outcomes'[j] # outcomes[j]

SkippedKinds == {"skipped", "skipped_duplicate"}
WriteCalls == {"upsert_provisional", "upsert_final", "upsert_failed",
               "delete_provisional", "batch_add_transactions"}

C3_SkipHasNoOtherEffect ==
    [][ \A j \in Jobs :
          ( /\ pc[j] = "idempotency" /\ Stepped(j)
            /\ Referenced(CurMsg(loc[j]))
            /\ pc'[j] # "job_except" )
          => ( /\ statements' = statements
               /\ transactions' = transactions
               /\ calls'[j] = {"statement_exists_by_gmail_id"}
               /\ loc'[j].results = [loc[j].results EXCEPT !.skipped = @ + 1]
               /\ Len(outcomes'[j]) = Len(outcomes[j]) + 1
               /\ outcomes'[j][Len(outcomes'[j])].result = "skipped" )
      ]_vars

\* A run has just skipped a message that a processed Statement references.
C3_Witness ==
    \E j \in Jobs :
        /\ outcomes[j] # <<>>
        /\ outcomes[j][Len(outcomes[j])].result = "skipped"
        /\ Referenced(outcomes[j][Len(outcomes[j])].msg)
        /\ calls[j] = {"statement_exists_by_gmail_id"}
        /\ loc[j].results.skipped > 0

\* C4 as stated: a message's failure never ends the run; the run goes on
\* to the next message and ends done with its counts.  So no run ends, or
\* reaches the job-level handler, with a message still in hand.
C4_FailureIsolated ==
    \A j \in Jobs :
        loc[j].midx > 0 => pc[j] \notin {"job_except", "returned", "raised"}

\* C5 as stated: an error raised at any step of per-message processing,
\* the idempotency read and the provisional write included, ends in the
\* provisional record marked failed and failed + 1; none leaves
\* _process_message.
C5_ErrorsContained ==
    \A j \in Jobs : \A o \in Range(outcomes[j]) : o.result # "raised"

WrongPassword == Str("wrong_password", 14)
ScannedPdf == Str("scanned_pdf_unsupported", 23)

\* The write of a classified failure by run j has succeeded: the
\* provisional record is failed with that reason, failed is one more, the
\* other counts are as before.
MarkedFailed(j, reason) ==
    /\ CurTemp(loc[j]) \in DOMAIN statements'
    /\ FieldIs(statements'[CurTemp(loc[j])], "status", "failed")
    /\ FieldIs(statements'[CurTemp(loc[j])], "errorReason", reason)
    /\ loc'[j].results.failed = loc[j].results.failed + 1
    /\ loc'[j].results.processed = loc[j].results.processed
    /\ loc'[j].results.skipped = loc[j].results.skipped
    /\ transactions' = transactions

\* C6: when decrypt_pdf raises WrongPasswordError, the message's record is
\* marked failed with reason exactly wrong_password and failed is
\* incremented by one; neither the readability check nor the extraction is
\* called, and no processed Statement is written for the message.
C6_WrongPassword ==
    [][ \A j \in Jobs :
          /\ (pc[j] = "decrypt" /\ Stepped(j) /\ pc'[j] = "mark_failed")
             => (loc'[j].reason = WrongPassword /\ statements' = statements)
          /\ (pc[j] = "mark_failed" /\ Stepped(j) /\ "is_readable" \notin calls[j])
             => ( /\ calls'[j] \cap {"extract_statement", "upsert_final",
                                     "batch_add_transactions"} = {}
                  /\ pc'[j] # "handler" => MarkedFailed(j, WrongPassword) )
      ]_vars

\* A message has ended failed on a wrong password.
C6_Witness ==
    \E j \in Jobs :
        /\ outcomes[j] # <<>>
        /\ LET o == outcomes[j][Len(outcomes[j])]
               id == temp_id(o.provider, o.msg)
           IN  /\ o.result = "failed"
               /\ "decrypt_pdf" \in o.calls /\ "is_readable" \notin o.calls
               /\ id \in DOMAIN statements
               /\ FieldIs(statements[id], "errorReason", WrongPassword)
               /\ FieldIs(statements[id], "status", "failed")
               /\ loc[j].results.failed = 1

\* C7: a PDF whose text has fewer than 100 characters once stripped is
\* rejected: the message is marked failed with reason
\* scanned_pdf_unsupported and the extraction is not called for it; the
\* extraction is only ever called after the readability check has passed.
C7_ReadabilityGate ==
    [][ \A j \in Jobs :
          /\ (pc[j] = "readable" /\ Stepped(j)
                /\ StrippedLen(loc'[j].text) < min_chars)
             => ( /\ pc'[j] = "mark_failed"
                  /\ loc'[j].reason = ScannedPdf
                  /\ statements' = statements )
          /\ (pc[j] = "mark_failed" /\ Stepped(j) /\ "is_readable" \in calls[j]
                /\ StrippedLen(loc[j].text) < min_chars)
             => ( /\ "extract_statement" \notin calls'[j]
                  /\ pc'[j] # "handler" => MarkedFailed(j, ScannedPdf) )
          /\ (pc[j] = "extract" /\ Stepped(j))
             => ( /\ "is_readable" \in calls[j]
                  /\ StrippedLen(loc[j].text) >= min_chars )
      ]_vars

\* A message has ended failed at the readability gate.
C7_Witness ==
    \E j \in Jobs :
        /\ outcomes[j] # <<>>
        /\ LET o == outcomes[j][Len(outcomes[j])]
               id == temp_id(o.provider, o.msg)
           IN  /\ o.result = "failed"
               /\ "is_readable" \in o.calls /\ "extract_statement" \notin o.calls
               /\ id \in DOMAIN statements
               /\ FieldIs(statements[id], "errorReason", ScannedPdf)
               /\ FieldIs(statements[id], "status", "failed")

JobStatus(doc) == IF doc = NoDoc THEN "none" ELSE doc.status

\* C8 as stated: the status of a SyncJob only moves pending -> processing
\* -> done or pending -> processing -> failed; done and failed are never
\* left.
C8_StatusMonotonic ==
    [][ \A j \in Jobs :
          JobStatus(jobs'[j]) # JobStatus(jobs[j])
          => <<JobStatus(jobs[j]), JobStatus(jobs'[j])>> \in
                { <<"none", "pending">>, <<"pending", "processing">>,
                  <<"processing", "done">>, <<"processing", "failed">> }
      ]_vars

\* C9 as stated: run_sync never raises, and once it has returned its
\* SyncJob is done or failed, with an error text of at most 500 characters.
C9_EndsDoneOrFailed ==
    \A j \in Jobs :
        /\ pc[j] # "raised"
        /\ pc[j] = "returned"
           => ( /\ JobStatus(jobs[j]) \in {"done", "failed"}
                /\ jobs[j].errorReason # None => jobs[j].errorReason.len <= JobErrLen )

\* The precondition of run_sync that the user record and the card
\* providers fail, as the reason the job is to carry; None when they fail
\* none.
PreconditionFailure ==
    IF user = NoDoc \/ ~FieldIs(user, "gmailConnected", TRUE)
        THEN Str("gmail_not_connected", 19)
    ELSE IF "gmailRefreshToken" \notin DOMAIN user
        THEN Str("no_refresh_token", 16)
    ELSE IF ~user.gmailRefreshToken.valid
        THEN Str("refresh_token_decrypt_failed", 28)
    ELSE IF cards = <<>>
        THEN Str("no_cards_configured", 19)
    ELSE None

\* C10: when the user has no mail-access grant, no refresh token, a token
\* that does not decrypt, or no card provider, run_sync stops at that
\* check: the failure it records on the job carries the reason of the
\* cause, it never searches the mailbox, and it writes no Statement, no
\* Transaction and no lastSyncAt.
C10_PreconditionStops ==
    [][ \A j \in Jobs :
          (Stepped(j) /\ PreconditionFailure # None)
          => ( /\ pc'[j] \in {"queued", "load_user", "load_cards", "job_except",
                               "returned", "raised"}
               /\ pc[j] = "load_user"
                    /\ PreconditionFailure # Str("no_cards_configured", 19)
                  => pc'[j] \in {"job_except", "returned", "raised"}
               /\ pc[j] \in {"load_user", "load_cards"} /\ pc'[j] = "returned"
                  => ( /\ jobs'[j].status = "failed"
                       /\ jobs'[j].errorReason = PreconditionFailure
                       /\ jobs[j].status = "processing" )
               /\ statements' = NoStatements
               /\ transactions' = {}
               /\ user' = user
               /\ calls'[j] = {} )
      ]_vars

\* A run has stopped on a refresh token that does not decrypt: its job is
\* failed with that reason and nothing else was written.
C10_Witness ==
    \E j \in Jobs :
        /\ pc[j] = "returned"
        /\ jobs[j].status = "failed"
        /\ PreconditionFailure # None
        /\ jobs[j].errorReason = PreconditionFailure
        /\ PreconditionFailure = Str("refresh_token_decrypt_failed", 28)
        /\ statements = NoStatements /\ transactions = {}

\* C11 as stated: a provisional record is written with status processing
\* before the download, and when the handling of its message ends it is
\* deleted or failed; so once every run has ended, no Statement is left
\* with status processing.
C11_NoProcessingLeft ==
    (\A j \in Jobs : ~InFlight(j))
    => \A id \in DOMAIN statements : ~FieldIs(statements[id], "status", "processing")

\* C12: every Transaction of the store references, by statementId, a
\* Statement that exists and whose status is processed.
C12_TransactionHasParent ==
    \A t \in transactions :
        /\ t.statementId \in DOMAIN statements
        /\ Processed(t.statementId)

\* Two overlapping runs have both written the transactions of one
\* statement, and the provisional records are gone.
C12_Witness ==
    /\ \E t1, t2 \in transactions :
          t1.statementId = t2.statementId /\ t1.batch[1] # t2.batch[1]
    /\ \A j \in Jobs : pc[j] = "returned"

\* A processed Statement exists under the id.
IsProcessed(id) == id \in DOMAIN statements /\ Processed(id)

\* C19: when get_statement finds a processed Statement under the final
\* id of a message, the message goes to the duplicate branch without a
\* write; that branch deletes the provisional record, leaves every other
\* Statement (the processed one included) and every Transaction as they
\* were, adds 1 to skipped and to nothing else, and ends the message
\* (taken for the case that the delete itself does not raise).
C19_LateDuplicateSkipped ==
    [][ \A j \in Jobs :
          LET l == loc[j]
              final == CurFinal(l)
              temp == CurTemp(l)
          IN
          /\ (pc[j] = "get_final" /\ Stepped(j) /\ IsProcessed(final)
                /\ pc'[j] # "handler")
             => ( /\ pc'[j] = "delete_dup"
                  /\ statements' = statements
                  /\ transactions' = transactions
                  /\ loc'[j].results = l.results )
          /\ (pc[j] = "get_final" /\ Stepped(j) /\ ~IsProcessed(final))
             => pc'[j] # "delete_dup"
          /\ (pc[j] = "delete_dup" /\ Stepped(j) /\ pc'[j] # "handler")
             => ( /\ IsProcessed(final)
                  /\ temp \notin DOMAIN statements'
                  /\ \A id \in DOMAIN statements \ {temp} :
                        id \in DOMAIN statements' /\ statements'[id] = statements[id]
                  /\ DOMAIN statements' \subseteq DOMAIN statements
                  /\ transactions' = transactions
                  /\ loc'[j].results = [l.results EXCEPT !.skipped = @ + 1]
                  /\ Len(outcomes'[j]) = Len(outcomes[j]) + 1
                  /\ outcomes'[j][Len(outcomes'[j])].result = "skipped_duplicate" )
      ]_vars

\* C19 witness: a message has just been skipped as a late duplicate: its
\* provisional record was written and is gone, its text was extracted, and
\* the Statement of its month is processed and references another message.
C19_Witness ==
    \E j \in Jobs :
        /\ outcomes[j] # <<>>
        /\ LET o == outcomes[j][Len(outcomes[j])]
           IN  /\ o.result = "skipped_duplicate"
               /\ "upsert_provisional" \in o.calls
               /\ "extract_statement" \in o.calls
               /\ temp_id(o.provider, o.msg) \notin DOMAIN statements
               /\ \E id \in DOMAIN statements :
                     /\ id[1] = o.provider
                     /\ id[2] = "final"
                     /\ Processed(id)
                     /\ ~FieldIs(statements[id], "gmailMessageId", o.msg)
               /\ loc[j].results.skipped > 0

\* Run j has written lastSyncAt and nothing has overwritten it.
LastSyncBy(j) == user # NoDoc /\ FieldIs(user, "lastSyncAt", j)

\* C20: the user record changes only by the lastSyncAt write of a run
\* whose job is marked done, and that write is the run's last step: the
\* run returns with its job done.  A run that returns with its job done
\* has written lastSyncAt, whatever its messages' results were; a run
\* that has ended with its job failed, or has not ended, has not.
C20_LastSyncOnSuccess ==
    [][ /\ user' # user
           => \E j \in Jobs :
                 /\ pc[j] = "last_sync"
                 /\ pc'[j] = "returned"
                 /\ JobStatus(jobs[j]) = "done"
                 /\ jobs' = jobs
                 /\ user' = MergeSet(user, [lastSyncAt |-> j])
        /\ \A j \in Jobs :
              /\ (pc[j] # "returned" /\ pc'[j] = "returned" /\ JobStatus(jobs'[j]) = "done")
                 => LastSyncBy(j)'
              /\ (pc[j] = "last_sync" /\ pc'[j] = "returned")
                 => JobStatus(jobs'[j]) = "done"
              /\ LastSyncBy(j) => (pc[j] = "returned" /\ JobStatus(jobs[j]) = "done")
              /\ JobStatus(jobs[j]) = "failed" => ~LastSyncBy(j)
      ]_vars

\* C20 witness: a run none of whose messages was processed and at least
\* one of whose messages failed has returned with its job done and
\* lastSyncAt written.
C20_Witness ==
    \E j \in Jobs :
        /\ pc[j] = "returned"
        /\ JobStatus(jobs[j]) = "done"
        /\ jobs[j].results.failed > 0
        /\ jobs[j].results.processed = 0
        /\ LastSyncBy(j)

\* The reason the claim gives a message without a PDF attachment.
NoPdfAttachment == Str("no_pdf_attachment", 17)

\* C21 as stated: when the download finds no PDF attachment the message
\* ends failed with recorded reason no_pdf_attachment: the provisional
\* Statement is failed with that reason, failed is one more, and neither
\* decrypt nor readability nor extraction is called for the message.
C21_NoPdfAttachment ==
    [][ \A j \in Jobs :
          (pc[j] = "handler" /\ Stepped(j) /\ loc[j].exc = NoPdfError
             /\ pc'[j] # "job_except")
          => ( /\ calls'[j] \cap {"decrypt_pdf", "is_readable", "extract_statement"} = {}
               /\ MarkedFailed(j, NoPdfAttachment) )
      ]_vars

\* The Statements other than the provisional record of the message in
\* hand are as they were.
OnlyProvisionalChanged(j) ==
    /\ DOMAIN statements' = DOMAIN statements \cup {CurTemp(loc[j])}
    /\ \A id \in DOMAIN statements \ {CurTemp(loc[j])} : statements'[id] = statements[id]

UpstreamFailure(o) ==
    /\ o.result = "failed"
    /\ o.reason \notin {WrongPassword, ScannedPdf}

\* No provider's handling of the message, in either run, ended processed.
NeverProcessed(msg_id) ==
    \A j \in Jobs : \A o \in Range(outcomes[j]) : o.msg = msg_id => o.result # "processed"

\* C23 as stated: a message that ended failed on an upstream failure in
\* the first run is not skipped by the idempotency check of the second
\* run: the second run writes its provisional record again.
C23_UpstreamFailureRetried ==
    \A o1 \in Range(outcomes[1]), o2 \in Range(outcomes[2]) :
        ( /\ UpstreamFailure(o1)
          /\ o1.provider = o2.provider /\ o1.msg = o2.msg
          /\ NeverProcessed(o1.msg) )
        => ( /\ o2.result # "skipped"
             /\ o2.result # "raised" => "upsert_provisional" \in o2.calls )

\* C24 as stated: a message that failed with scanned_pdf_unsupported in
\* the first run is not retried: the second run makes no download, no
\* readability check and no extraction for it.
C24_ScannedNotRetried ==
    \A o1 \in Range(outcomes[1]), o2 \in Range(outcomes[2]) :
        ( /\ o1.result = "failed" /\ o1.reason = ScannedPdf
          /\ o1.provider = o2.provider /\ o1.msg = o2.msg )
        => o2.calls \cap {"get_pdf_attachment", "is_readable", "extract_statement"} = {}

\* Run k has written a processed Statement for the message: its upsert of
\* the final Statement has returned (the delete of the provisional record
\* is only called after it).
WroteFinal(k, msg_id) ==
    \/ /\ pc[k] \in {"delete_temp", "write_tx"}
       /\ CurMsg(loc[k]) = msg_id
    \/ /\ pc[k] = "handler"
       /\ CurMsg(loc[k]) = msg_id
       /\ {"upsert_final", "delete_provisional"} \subseteq calls[k]
    \/ \E o \in Range(outcomes[k]) :
          o.msg = msg_id /\ {"upsert_final", "delete_provisional"} \subseteq o.calls

\* C25 as stated, first half: a run whose idempotency read for a message
\* comes after the other run's write of the processed Statement for that
\* message skips the message at that read, and writes nothing for it.
C25_ReadAfterWriteSkips ==
    [][ \A j \in Jobs :
          ( /\ pc[j] = "idempotency" /\ Stepped(j)
            /\ \E k \in Jobs \ {j} : WroteFinal(k, CurMsg(loc[j]))
            /\ pc'[j] # "job_except" )
          => ( /\ Len(outcomes'[j]) = Len(outcomes[j]) + 1
               /\ outcomes'[j][Len(outcomes'[j])].result = "skipped"
               /\ statements' = statements
               /\ transactions' = transactions )
      ]_vars

\* The number of messages of run j that ended with one of the results.
Ended(j, kinds) ==
    Cardinality({i \in 1..Len(outcomes[j]) : outcomes[j][i].result \in kinds})

\* C26: the write that marks a job done carries the run's results; while
\* the job is done, processed + skipped + failed is the number of
\* messages the searches of the run returned, each count is the number of
\* messages that ended that way, and errors has one entry per failed
\* message.
C26_ResultsAddUp ==
    [][ \A j \in Jobs :
          /\ (JobStatus(jobs[j]) # "done" /\ JobStatus(jobs'[j]) = "done")
             => ( /\ "results" \in DOMAIN jobs'[j]
                  /\ jobs'[j].results = loc[j].results )
          /\ JobStatus(jobs[j]) = "done"
             => LET r == jobs[j].results IN
                /\ r.processed + r.skipped + r.failed = loc[j].messages_found
                /\ r.processed = Ended(j, {"processed"})
                /\ r.skipped = Ended(j, SkippedKinds)
                /\ r.failed = Ended(j, {"failed"})
                /\ Len(r.errors) = r.failed
      ]_vars

\* C26 witness: a job is done after a run in which one message was
\* processed, one skipped and one failed.
C26_Witness ==
    \E j \in Jobs :
        /\ JobStatus(jobs[j]) = "done"
        /\ jobs[j].results.processed = 1
        /\ jobs[j].results.skipped = 1
        /\ jobs[j].results.failed = 1
        /\ Len(jobs[j].results.errors) = 1
        /\ loc[j].messages_found = 3

\* A Statement with status=failed references the message and the provider.
FailureVisible(stmts, o) ==
    \E id \in DOMAIN stmts :
        /\ FieldIs(stmts[id], "status", "failed")
        /\ FieldIs(stmts[id], "gmailMessageId", o.msg)
        /\ FieldIs(stmts[id], "cardProvider", o.provider)

\* C27 as stated: when a run ends, every message it counted as failed has
\* a Statement with status=failed that references the message's id and
\* provider.
C27_FailureVisible ==
    [][ \A j \in Jobs :
          (pc[j] # "returned" /\ pc'[j] = "returned")
          => \A o \in Range(outcomes'[j]) :
                o.result = "failed" => FailureVisible(statements', o)
      ]_vars

\* Run j is between the provisional write of a message and the message's
\* terminal outcome, or is ending on an exception that left the message.
InMessage(j) ==
    /\ loc[j].midx > 0
    /\ pc[j] \in {"download", "decrypt", "readable", "extract", "get_final", "delete_dup",
                  "write_final", "delete_temp", "write_tx", "mark_failed", "handler",
                  "job_except"}

\* The Statements in status=processing that run j wrote: the provisional
\* records of the messages it has ended and of the message it has in hand.
OwnProcessing(j) ==
    {id \in DOMAIN statements :
        /\ FieldIs(statements[id], "status", "processing")
        /\ \/ \E o \in Range(outcomes[j]) :
                 "upsert_provisional" \in o.calls /\ id = temp_id(o.provider, o.msg)
           \/ InMessage(j) /\ id = CurTemp(loc[j])}

\* C28: while a run is under way, at most one Statement that it wrote is
\* in status=processing, and it is the provisional record of the one
\* message the run has in hand; between two messages there is none.
C28_OneMessageAtATime ==
    \A j \in Jobs :
        InFlight(j) =>
            /\ Cardinality(OwnProcessing(j)) <= 1
            /\ \A id \in OwnProcessing(j) : InMessage(j) /\ id = CurTemp(loc[j])

\* C28 witness: a run that has ended one message after writing its
\* provisional record has the next message in hand, whose provisional
\* record is the only Statement in status=processing.
C28_Witness ==
    \E j \in Jobs :
        /\ InMessage(j)
        /\ \E o \in Range(outcomes[j]) :
              /\ "upsert_provisional" \in o.calls
              /\ temp_id(o.provider, o.msg) # CurTemp(loc[j])
        /\ OwnProcessing(j) = {CurTemp(loc[j])}

\* The turns appended to the conversation after the user's question, the
\* function responses among them, and the tool_result and message events
\* of the stream.
IsResponse(t) == t.kind = "function_response"
IsToolResult(e) == e.type = "tool_result"
IsMessage(e) == e.type = "message"
TurnsOfThisQuestion ==
    SubSeq(contents, Len(build_contents_from_history(history)) + 2, Len(contents))
ResponsesOfThisQuestion == SelectSeq(TurnsOfThisQuestion, IsResponse)

\* s is the compact summary of the result r of tool n, and not r itself.
CompactSummaryOf(s, n, r) == s = [tool |-> n, summary_of |-> r.json] /\ s # r

\* C29: each executed tool call has one function-response turn, carrying
\* the tool's full JSON result, one tool_result event and one tool_calls
\* record, both carrying only the compact summary of that result; the
\* records are in execution order, and the final message event carries
\* exactly the list of records.
C29_FullToModelSummaryToClient ==
    LET responses == ResponsesOfThisQuestion
        results == SelectSeq(events, IsToolResult)
        messages == SelectSeq(events, IsMessage)
    IN  model_calls > 0 =>
        /\ Len(responses) = Len(collected_tool_calls)
        /\ Len(results) = Len(collected_tool_calls)
        /\ \A i \in 1..Len(collected_tool_calls) :
              LET rec == collected_tool_calls[i]
                  full == responses[i].result
              IN  /\ responses[i].name = rec.name
                  /\ results[i].name = rec.name
                  /\ full \in {ToolResult(rec.name), ToolError(rec.name)}
                  /\ CompactSummaryOf(rec.result, rec.name, full)
                  /\ CompactSummaryOf(results[i].result, rec.name, full)
        /\ \A i \in 1..Len(messages) : messages[i].tool_calls = collected_tool_calls

\* C29 witness: a stream ended on a final message whose tool_calls list
\* records two calls of different tools over the turn, one of them with an
\* error result.
C29_Witness ==
    /\ apc = "ended"
    /\ Len(events) >= 2
    /\ events[Len(events)] = DoneEvent
    /\ events[Len(events) - 1].type = "message"
    /\ Len(events[Len(events) - 1].tool_calls) >= 2
    /\ \E i, k \in 1..Len(collected_tool_calls) :
          /\ i < k
          /\ collected_tool_calls[i].name # collected_tool_calls[k].name
    /\ \E i \in 1..Len(ResponsesOfThisQuestion) :
          ResponsesOfThisQuestion[i].result = ToolError(ResponsesOfThisQuestion[i].name)

\* The text of a month read back as numbers: "YYYY-MM".
DigitValue(c) == (CHOOSE d \in 1..10 : DigitChars[d] = c) - 1
RECURSIVE NumberOf(_)
NumberOf(s) ==
    IF s = <<>> THEN 0 ELSE 10 * NumberOf(SubSeq(s, 1, Len(s) - 1)) + DigitValue(s[Len(s)])
IsMonthText(s) ==
    /\ Len(s) = MonthLen
    /\ s[5] = "-"
    /\ \A i \in {1, 2, 3, 4, 6, 7} : \E d \in 1..10 : DigitChars[d] = s[i]
ReadMonth(s) == [year |-> NumberOf(SubSeq(s, 1, 4)), month |-> NumberOf(SubSeq(s, 6, 7))]

\* Months counted from year 0, and the calendar month k months before
\* the clock's.
MonthIndex(clock) == 12 * clock.year + (clock.month - 1)
CalendarMonthBefore(clock, k) ==
    [year |-> (MonthIndex(clock) - k) \div 12, month |-> ((MonthIndex(clock) - k) % 12) + 1]

\* search_transactions was called with neither billing_month nor
\* billing_months, and has made its query.
DefaultedSearch ==
    /\ queried # <<>>
    /\ "billing_month" \notin DOMAIN args
    /\ "billing_months" \notin DOMAIN args

\* C30: called with neither billing_month nor billing_months,
\* search_transactions queries exactly three months, written YYYY-MM: the
\* clock's calendar month and the two calendar months before it, the year
\* one less where the window goes back past January.
C30_DefaultWindow ==
    DefaultedSearch =>
        /\ Len(queried) = 3
        /\ \A k \in 1..3 :
              /\ IsMonthText(queried[k])
              /\ ReadMonth(queried[k]) = CalendarMonthBefore(now, k - 1)
        /\ now.month = 1 =>
              /\ ReadMonth(queried[1]) = [year |-> now.year, month |-> 1]
              /\ ReadMonth(queried[2]) = [year |-> now.year - 1, month |-> 12]
              /\ ReadMonth(queried[3]) = [year |-> now.year - 1, month |-> 11]

\* C30 witness: a defaulted search made in February, whose window goes
\* back into December of the year before.
C30_Witness ==
    /\ DefaultedSearch
    /\ now.month = 2
    /\ ReadMonth(queried[3]) = [year |-> now.year - 1, month |-> 12]

\* A processed Statement of the store stmts references the message.
ReferencedIn(stmts, msg_id) ==
    \E id \in DOMAIN stmts :
        /\ FieldIs(stmts[id], "status", "processed")
        /\ FieldIs(stmts[id], "gmailMessageId", msg_id)

\* C32 as stated: at the step that ends a message as failed (failed is
\* incremented), no Statement with status=processed references that
\* message, also when the failure came after the final upsert.
C32_FailedLeavesNoProcessed ==
    [][ \A j \in Jobs :
          ( /\ Len(outcomes'[j]) = Len(outcomes[j]) + 1
            /\ outcomes'[j][Len(outcomes'[j])].result = "failed" )
          => ~ReferencedIn(statements', outcomes'[j][Len(outcomes'[j])].msg)
      ]_vars

\* A provider document without its credential, and two stores that differ
\* at most in the encrypted passwords of their providers.
WithoutPassword(p) == [f \in DOMAIN p \ {"encryptedPassword"} |-> p[f]]
SameButPasswords(s, t) ==
    /\ Len(s) = Len(t)
    /\ \A i \in DOMAIN s : WithoutPassword(s[i]) = WithoutPassword(t[i])

\* C31: what list_card_providers returns for a store is what it returns
\* for every store that differs from it only in the providers' encrypted
\* passwords (present or absent, whatever their value), and no provider
\* of the output has an encryptedPassword field.
C31_ListingHidesCredentials ==
    listed # None =>
        /\ \A other \in ProviderStores :
              SameButPasswords(cards, other) => ListCardProviders(other) = listed
        /\ \A i \in DOMAIN listed.providers :
              "encryptedPassword" \notin DOMAIN listed.providers[i]

\* C31 witness: the tool has listed two providers, one with a stored
\* password and one without, and another store differs from this one in
\* the passwords alone.
C31_Witness ==
    /\ listed # None
    /\ listed.count = 2
    /\ \E i, k \in DOMAIN cards :
          /\ "encryptedPassword" \in DOMAIN cards[i]
          /\ "encryptedPassword" \notin DOMAIN cards[k]
    /\ \E other \in ProviderStores : other # cards /\ SameButPasswords(cards, other)

\* C33 as stated: in every state, a Statement whose errorReason is set
\* (present and not null) has status failed.
C33_ReasonOnlyOnFailed ==
    \A id \in DOMAIN statements :
        ( "errorReason" \in DOMAIN statements[id] /\ statements[id].errorReason # None )
        => FieldIs(statements[id], "status", "failed")

\* The positions of the events of a type, and the last event of the stream.
EventsAt(type) == {k \in 1..Len(events) : events[k].type = type}
LastEvent == events[Len(events)]

\* The shape of a stream: at most one message event and at most one
\* terminal event (done or error, never both), a terminal event is the
\* last event, done comes directly after the message event, nothing but
\* done comes after the message event, and a stream that has ended has a
\* terminal event.
StreamShape ==
    /\ Cardinality(EventsAt("message")) <= 1
    /\ Cardinality(EventsAt("done") \cup EventsAt("error")) <= 1
    /\ \A k \in EventsAt("done") \cup EventsAt("error") : k = Len(events)
    /\ \A k \in EventsAt("done") : k > 1 /\ events[k - 1].type = "message"
    /\ \A k \in EventsAt("message") :
          \A n \in (k + 1)..Len(events) : n = k + 1 /\ events[n] = DoneEvent
    /\ apc = "ended" =>
          /\ events # <<>>
          /\ LastEvent.type \in {"done", "error"}

\* C34 witness: a stream that executed two tool calls and ended with a
\* message event followed by done.
C34_Witness ==
    /\ apc = "ended"
    /\ Cardinality(EventsAt("tool_result")) >= 2
    /\ Len(events) >= 2
    /\ LastEvent = DoneEvent
    /\ events[Len(events) - 1].type = "message"

\* The stream is consumed to its end: the response that iterates it keeps
\* asking for the next event, and every call it waits for returns or
\* raises.
SpecAgentLive == InitAgent /\ [][NextAgent]_vars /\ WF_vars(NextAgent)

\* C34: every stream ends, and at every moment it has the shape above: a
\* stream that has ended has exactly one terminal event, its last event,
\* which is done directly after the only message event, or error.
C34_OneTerminalEvent == []StreamShape /\ <>(apc = "ended")

\* C35 as stated: every tool_call event that is not the last event of the
\* stream is directly followed by a tool_result event for the same tool,
\* and a call of an unknown tool or of an executor that raises brings no
\* error event (taken for the streams in which no other call fails: the
\* model call, the reading of the response, or a summary failing for a
\* reason of its own).
C35_ToolCallThenResult ==
    exc \notin Errors =>
        /\ \A k \in EventsAt("tool_call") :
              k < Len(events) =>
                  /\ events[k + 1].type = "tool_result"
                  /\ events[k + 1].name = events[k].name
        /\ EventsAt("error") = {}

\* The providers whose stored PDF password cannot be decrypted, and those
\* with a password that decrypts to a non-empty text.
UndecryptableIds ==
    {cards[i].id : i \in {k \in DOMAIN cards : ~cards[k].encryptedPassword.valid}}
PasswordIds ==
    {cards[i].id : i \in {k \in DOMAIN cards :
        cards[k].encryptedPassword.valid /\ cards[k].encryptedPassword.plain # ""}}

\* C38: for a provider whose stored PDF password cannot be decrypted the
\* run goes on to the provider's messages with an empty password: no
\* message of it reaches the decrypt step, calls decrypt_pdf or ends with
\* wrong_password; a provider of the same run with a good password keeps
\* it, and its processed messages went through decrypt_pdf.
C38_UndecryptablePasswordSwallowed ==
    \A j \in Jobs :
        /\ \A o \in Range(outcomes[j]) :
              /\ o.provider \in UndecryptableIds =>
                    "decrypt_pdf" \notin o.calls /\ o.reason # WrongPassword
              /\ (o.provider \in PasswordIds /\ o.result = "processed") =>
                    "decrypt_pdf" \in o.calls
        /\ (InFlight(j) /\ loc[j].midx > 0) =>
              /\ CurProvider(loc[j]).id \in UndecryptableIds =>
                    loc[j].pdf_password = "" /\ pc[j] # "decrypt"
              /\ CurProvider(loc[j]).id \in PasswordIds =>
                    loc[j].pdf_password = CurProvider(loc[j]).encryptedPassword.plain

\* C38 witness: a run that ended done after processing a message of a
\* provider with an undecryptable password without decrypt_pdf, and a
\* message of another provider with decrypt_pdf.
C38_Witness ==
    \E j \in Jobs :
        /\ pc[j] = "returned"
        /\ FieldIs(jobs[j], "status", "done")
        /\ \E o1, o2 \in Range(outcomes[j]) :
              /\ o1.provider \in UndecryptableIds
              /\ o1.result = "processed"
              /\ "decrypt_pdf" \notin o1.calls
              /\ o2.provider \in PasswordIds
              /\ o2.result = "processed"
              /\ "decrypt_pdf" \in o2.calls

\* The place of a request's user message in the chat, and the messages
\* persisted before it.
PlaceOf(s) == CHOOSE k \in DOMAIN chat : chat[k] = Message("user", UserText(s), <<>>)
PersistedBefore(s) == SubSeq(chat, 1, PlaceOf(s) - 1)

\* C36 as stated: the conversation a request submits to the model ends
\* with the user message of the request, holds it exactly once, and before
\* it holds the turns of the messages persisted before it, in persisted
\* order; also when two requests to the chat overlap.
C36_SubmittedConversation ==
    \A s \in Sends :
        sloc[s].submitted # <<>> =>
            LET sub == sloc[s].submitted
                turn == TextTurn("user", UserText(s))
            IN  /\ sub[Len(sub)] = turn
                /\ Cardinality({k \in DOMAIN sub : sub[k] = turn}) = 1
                /\ SubSeq(sub, 1, Len(sub) - 1) =
                      build_contents_from_history(PersistedBefore(s))

\* The message events a request passed on, the steps of its log, and the
\* assistant messages persisted since the first of the requests wrote its
\* user message.
MessageWires(s) == {k \in DOMAIN sloc[s].yielded : sloc[s].yielded[k].event = "message"}
StepsAt(s, step) == {k \in DOMAIN sloc[s].log : sloc[s].log[k] = step}
IsUserMessageOf(msg, s) == msg = Message("user", UserText(s), <<>>)
NewAssistants ==
    {k \in DOMAIN chat :
        /\ chat[k].role = "assistant"
        /\ \E s \in Sends : \E i \in 1..(k - 1) : IsUserMessageOf(chat[i], s)}

\* C37: a request's user message is persisted before its stream starts;
\* it persists at most one assistant message, after the stream has ended;
\* a request that ran to its end persisted one exactly when its stream had
\* a message event with non-empty content or tool calls, and the persisted
\* message carries that content and those tool-call records; a stream
\* that gave no message event (an error, with or without tool calls
\* before it) persists none.  The assistant messages added to the chat are
\* as many as the requests that persisted one.
C37_PersistenceAroundStream ==
    /\ \A s \in Sends :
          LET log == sloc[s].log IN
          /\ log # <<>> =>
                /\ log[1] = "user_persisted"
                /\ \E k \in DOMAIN chat : IsUserMessageOf(chat[k], s)
          /\ Cardinality(StepsAt(s, "assistant_persisted")) <= 1
          /\ \A k \in StepsAt(s, "assistant_persisted") :
                k = Len(log) /\ log[k - 1] = "stream_ended"
          /\ MessageWires(s) = {} => StepsAt(s, "assistant_persisted") = {}
          /\ spc[s] = "done" =>
                \A k \in MessageWires(s) :
                    LET data == sloc[s].yielded[k].data IN
                    IF data.content # <<>> \/ data.tool_calls # <<>>
                    THEN /\ StepsAt(s, "assistant_persisted") # {}
                         /\ \E n \in NewAssistants :
                               chat[n] = Message("assistant", data.content, data.tool_calls)
                    ELSE StepsAt(s, "assistant_persisted") = {}
    /\ Cardinality(NewAssistants) =
          Cardinality({s \in Sends : StepsAt(s, "assistant_persisted") # {}})

\* C37 witness: one request ended after a stream of a tool call and an
\* error and persisted nothing; another ended after a stream whose
\* message had tool calls and no text, and persisted that message.
C37_Witness ==
    \E s, t \in Sends :
        /\ spc[s] = "done" /\ spc[t] = "done"
        /\ MessageWires(s) = {}
        /\ Len(sloc[s].yielded) = 3
        /\ StepsAt(s, "assistant_persisted") = {}
        /\ StepsAt(t, "assistant_persisted") # {}
        /\ \E n \in NewAssistants :
              chat[n] = Message("assistant", <<>>, <<ToolCallRecord("get_statements")>>)
        /\ Cardinality(NewAssistants) = 1

====
